---- MODULE Spec2Model ----
(***************************************************************************)
(* A model of hazo_logs: the Query Engine (src/src/lib/log-reader.ts) with *)
(* the writer path that produces the day's log file (src/unnamed/part_002, *)
(* the daily rotating JSON file transport), the API route                  *)
(* (src/src/ui/api/log-api-handler.ts), the wrapper withLogAuth            *)
(* (src/unnamed/part_005), the HazoLogger singleton                        *)
(* (src/src/lib/hazo_logger.ts), the log context                           *)
(* (src/src/lib/context/log-context.ts), the configuration loader          *)
(* (src/src/lib/config_loader.ts), the package logger                      *)
(* (src/src/lib/package_logger.ts) and the client logger in batch mode     *)
(* (src/src/ui/client-config.ts).                                          *)
(*                                                                         *)
(* Strings are sequences of one-character strings, so that toLowerCase,    *)
(* includes, trim, split, parseInt and localeCompare are computed and not  *)
(* assumed.  A line of the file is a sequence of lexical tokens; JSON.parse *)
(* is a recogniser of the token grammar together with the construction of  *)
(* the value.  A promise is modelled by its state; the code between two    *)
(* awaits is one step.                                                     *)
(***************************************************************************)
EXTENDS Integers, Sequences, FiniteSets, TLC

VARIABLES
  file,      \* the lines of the day's log file hazo-<date>.log
  exists,    \* whether the day's log file exists
  config,    \* the configuration loadConfig() returns
  pc,        \* "idle", "done" once readLogs has returned, "threw" once it
             \* has rejected with a TypeError
  options,   \* the ReadLogsOptions of the call
  parsed,    \* readLogs' local logs after parseLogFile
  filtered,  \* ... after applyFilters
  capped,    \* ... after the limit to maxResults
  sorted,    \* ... after applySorting
  result,    \* the LogQueryResult returned
  dir,       \* the names the log directory lists
  dirExists, \* whether the log directory exists
  calls,     \* what a caller has kept of the readLogs calls it made
  readable,  \* whether the file system lets the process read the logs
  request,   \* the request the API handler is serving
  response,  \* how the promise of the API handler has settled
  fsReads,   \* what the request has read of the log directory
  authPc,    \* withLogAuth: "idle", "checking" while authCheck is awaited, "done"
  authResult,         \* what authCheck returned, or how it failed
  innerCalls,         \* how often the wrapped handler was invoked for the request
  dependenciesLoaded, \* hazo_logger.ts: the server-only modules are imported
  loadPromise,        \* hazo_logger.ts: "null", "pending" or "fulfilled"
  instance,           \* HazoLogger.instance: 0 for null, else the instance
  instancePromise,    \* HazoLogger.instancePromise: 0 for null, else the promise
  promises,           \* the promises getInstanceAsync created: "pending" or "fulfilled"
  waiting,            \* the callers that wait for one of these promises
  constructed,        \* how many HazoLogger instances were constructed
  epoch,              \* how many resets took effect
  returned,           \* the instances handed to callers
  environment,        \* log-context.ts: "server", "browser" or "no_async_hooks"
  initialized,        \* log-context.ts: ensureInitialized has run
  logContextStorage,  \* log-context.ts: "clientStubStorage" or "AsyncLocalStorage"
  store,              \* the store of the AsyncLocalStorage where the code runs
  frames,             \* the calls of run() whose callback runs, innermost last
  suspended,          \* the async callbacks that wait at an await
  iniFile,            \* hazo_logs_config.ini: there or not, readable or not, and
                      \* what ini.parse gives for its section [hazo_logs]
  configLoaded,       \* config is what loadConfig() returned for iniFile as it is
  inFlight,           \* the line the file transport is writing, <<>> between two writes
  writerSequence,     \* the entries the transport has begun to write, in order
  streamed,           \* the read stream of parseLogFile and the lines it delivered
  coreLogger,         \* PackageLogger.coreLogger: the core logger, or none (null)
  coreLoggerPromise,  \* coreLoggerPromise: "null", "pending", "fulfilled", "rejected"
  initPromise,        \* the promise of HazoLogger.getInstanceAsync() in the constructor
  queued,             \* the entries whose then-callback has not run yet, oldest first
  delivered,          \* the calls of coreLogger.log(entry), in order
  reported,           \* the calls of console.error in the catch of log(), in order
  logCalls,           \* how many calls of error, warn, info, debug were made
  clientLogger,       \* createClientLogger: called or not, and its minLevel
  clientCalls,        \* the calls of the log methods: level, and data serialisable or not
  logBatch,           \* logBatch: the numbers of the calls whose entries wait
  batchTimer,         \* batchTimer: "null" or "set"
  pendingTimers,      \* the timeouts that are set and have not fired
  timerCallback,      \* the callback of the timer: "idle", "awaiting" or "resuming"
  posts,              \* the POSTs made: the calls in the body, its state, who awaits
  beforeUnloads,      \* how often beforeunload was fired
  unloaded            \* the page is gone

vars == <<file, exists, config, pc, options, parsed, filtered, capped, sorted, result,
          dir, dirExists, calls, readable, request, response, fsReads,
          authPc, authResult, innerCalls,
          dependenciesLoaded, loadPromise, instance, instancePromise, promises,
          waiting, constructed, epoch, returned,
          environment, initialized, logContextStorage, store, frames, suspended,
          iniFile, configLoaded,
          inFlight, writerSequence, streamed,
          coreLogger, coreLoggerPromise, initPromise, queued, delivered, reported,
          logCalls,
          clientLogger, clientCalls, logBatch, batchTimer, pendingTimers,
          timerCallback, posts, beforeUnloads, unloaded>>

\* the state of the reader: the day's file and the one call in progress
readerVars ==
  <<file, exists, config, pc, options, parsed, filtered, capped, sorted, result>>

\* the state of the API route
apiVars == <<readable, request, response, fsReads>>

\* the state of the wrapper withLogAuth
authVars == <<authPc, authResult, innerCalls>>

\* the state of the HazoLogger singleton
loggerVars ==
  <<dependenciesLoaded, loadPromise, instance, instancePromise, promises,
    waiting, constructed, epoch, returned>>

\* the state of the log context (log-context.ts)
contextVars == <<environment, initialized, logContextStorage, store, frames, suspended>>

\* the state of the configuration file (config_loader.ts)
configFileVars == <<iniFile, configLoaded>>

\* the state of a write and a read in progress on the day's file
streamVars == <<inFlight, writerSequence, streamed>>

\* the state of a PackageLogger (package_logger.ts)
packageVars ==
  <<coreLogger, coreLoggerPromise, initPromise, queued, delivered, reported, logCalls>>

\* the state of a client logger with batchMode on (ui/client-logger.ts)
clientVars ==
  <<clientLogger, clientCalls, logBatch, batchTimer, pendingTimers, timerCallback,
    posts, beforeUnloads, unloaded>>

\* the state of the library outside the reader, the route and the singleton
libraryVars == <<contextVars, configFileVars, streamVars, packageVars, clientVars>>

\* the state of the server around the API route
aroundApiVars == <<authVars, loggerVars, libraryVars>>

\* the state of the server around the reader
serverVars == <<apiVars, aroundApiVars>>

\* the state of the callers
callerVars == <<calls, serverVars>>

\* the state outside the day's file and the one call in progress
auxVars == <<dir, dirExists, callerVars>>

----------------------------------------------------------------------------
(* Bounds of the model *)

\* the longest day file that is written
MaxLines == 3

\* the longest day file of the filter specification
MaxFilterLines == 2

----------------------------------------------------------------------------
(* Strings *)

\* String.prototype.toLowerCase on one character
LowerChar(c) ==
  CASE c = "A" -> "a"
    [] c = "B" -> "b"
    [] c = "F" -> "f"
    [] c = "P" -> "p"
    [] c = "R" -> "r"
    [] c = "S" -> "s"
    [] OTHER -> c

\* String.prototype.toLowerCase
toLowerCase(s) == [i \in 1..Len(s) |-> LowerChar(s[i])]

\* String.prototype.includes: t occurs in s as a contiguous substring
includesStr(s, t) ==
  \E i \in 0..(Len(s) - Len(t)) : SubSeq(s, i + 1, i + Len(t)) = t

\* Array.prototype.includes with strict equality
includes(list, x) == \E i \in 1..Len(list) : list[i] = x

\* primary collation weight of a character: digits before letters, a letter
\* and its capital share a weight
CharPrimary(c) ==
  CASE c = "0" -> 0
    [] c = "1" -> 1
    [] c = "2" -> 2
    [] c = "3" -> 3
    [] c \in {"a", "A"} -> 10
    [] c \in {"b", "B"} -> 11
    [] c \in {"f", "F"} -> 12
    [] c \in {"p", "P"} -> 13
    [] c \in {"r", "R"} -> 14
    [] c \in {"s", "S"} -> 15
    [] OTHER -> 20

\* tertiary weight: a lower-case letter sorts before its capital
CharTertiary(c) == IF LowerChar(c) # c THEN 1 ELSE 0

RECURSIVE CompareWeights(_, _, _)
\* lexicographic comparison of two sequences of weights from position i on;
\* a proper prefix comes first
CompareWeights(ws, wt, i) ==
  IF i > Len(ws) /\ i > Len(wt) THEN 0
  ELSE IF i > Len(ws) THEN -1
  ELSE IF i > Len(wt) THEN 1
  ELSE IF ws[i] < wt[i] THEN -1
  ELSE IF ws[i] > wt[i] THEN 1
  ELSE CompareWeights(ws, wt, i + 1)

\* String.prototype.localeCompare: primary weights decide, the case of the
\* letters breaks a primary tie
localeCompare(s, t) ==
  LET p == CompareWeights([i \in 1..Len(s) |-> CharPrimary(s[i])],
                          [i \in 1..Len(t) |-> CharPrimary(t[i])], 1)
  IN  IF p # 0 THEN p
      ELSE CompareWeights([i \in 1..Len(s) |-> CharTertiary(s[i])],
                          [i \in 1..Len(t) |-> CharTertiary(t[i])], 1)

----------------------------------------------------------------------------
(* The text of a line and JSON.parse *)

\* lexical tokens of a line; every token has the same three fields
Tok(t, k, v) == [t |-> t, k |-> k, v |-> v]
WS      == Tok("ws", "", <<>>)          \* a space or a tab
LBRACE  == Tok("lbrace", "", <<>>)
RBRACE  == Tok("rbrace", "", <<>>)
COMMA   == Tok("comma", "", <<>>)
JUNK    == Tok("junk", "", <<>>)        \* text that is no JSON token
Member(k, v) == Tok("member", k, v)     \* "k":"v"
Scalar(v)    == Tok("scalar", "", v)    \* a JSON literal that is no object

\* String.prototype.trim applied to a line: is anything left
RECURSIVE TrimIsEmpty(_)
TrimIsEmpty(line) ==
  IF line = <<>> THEN TRUE
  ELSE IF Head(line).t = "ws" THEN TrimIsEmpty(Tail(line))
  ELSE FALSE

NotWs(tok) == tok.t # "ws"

\* the members of an object body: member (comma member)*
RECURSIVE IsMemberList(_)
IsMemberList(toks) ==
  /\ toks # <<>>
  /\ Head(toks).t = "member"
  /\ \/ Len(toks) = 1
     \/ /\ Len(toks) >= 3
        /\ toks[2].t = "comma"
        /\ IsMemberList(SubSeq(toks, 3, Len(toks)))

\* the JSON grammar on tokens: white space is allowed between any two tokens
IsJSONText(line) ==
  LET toks == SelectSeq(line, NotWs)
      n == Len(toks)
  IN  \/ n = 1 /\ toks[1].t = "scalar"
      \/ /\ n >= 2
         /\ toks[1].t = "lbrace"
         /\ toks[n].t = "rbrace"
         /\ \/ n = 2
            \/ IsMemberList(SubSeq(toks, 2, n - 1))

IsMember(tok) == tok.t = "member"

\* the value JSON.parse builds: an object maps each key to the value of its
\* last member; a scalar has none of the properties of a log entry and is
\* kept under the key "__scalar"
JSONValue(line) ==
  LET toks == SelectSeq(line, NotWs)
      mem == SelectSeq(toks, IsMember)
      keys == {mem[i].k : i \in 1..Len(mem)}
      last(k) == CHOOSE i \in 1..Len(mem) :
                   /\ mem[i].k = k
                   /\ \A j \in (i + 1)..Len(mem) : mem[j].k # k
  IN  IF toks[1].t = "scalar"
      THEN [x \in {"__scalar"} |-> toks[1].v]
      ELSE [k \in keys |-> mem[last(k)].v]

\* JSON.parse: a value, or a SyntaxError
JSONParse(line) ==
  IF IsJSONText(line)
  THEN [ok |-> TRUE, value |-> JSONValue(line)]
  ELSE [ok |-> FALSE, value |-> <<>>]

----------------------------------------------------------------------------
(* parseLogFile *)

RECURSIVE parseLinesAbortOnError(_, _)
\* parseLines without the try/catch around JSON.parse: the first malformed
\* line ends the loop
parseLinesAbortOnError(lines, logs) ==
  IF lines = <<>> THEN logs
  ELSE LET line == Head(lines)
           rest == Tail(lines)
       IN  IF TrimIsEmpty(line) THEN parseLinesAbortOnError(rest, logs)
           ELSE IF JSONParse(line).ok
                THEN parseLinesAbortOnError(rest, Append(logs, JSONParse(line).value))
                ELSE logs

RECURSIVE parseLinesKeepsMalformed(_, _)
\* parseLines with a parser that takes the members it finds in any line that
\* is not blank
parseLinesKeepsMalformed(lines, logs) ==
  IF lines = <<>> THEN logs
  ELSE LET line == Head(lines)
           rest == Tail(lines)
       IN  IF TrimIsEmpty(line) THEN parseLinesKeepsMalformed(rest, logs)
           ELSE parseLinesKeepsMalformed(rest, Append(logs, JSONValue(line)))

RECURSIVE parseLines(_, _)
\* the for-await loop over the lines of the file
parseLines(lines, logs) ==
  IF lines = <<>> THEN logs
  ELSE LET line == Head(lines)
           rest == Tail(lines)
       IN  IF TrimIsEmpty(line) THEN parseLines(rest, logs)
           ELSE IF JSONParse(line).ok
                THEN parseLines(rest, Append(logs, JSONParse(line).value))
                ELSE parseLines(rest, logs)

parseLogFile(f) == parseLines(f, <<>>)

----------------------------------------------------------------------------
(* The writer: PackageLogger.log builds the entry, the file transport       *)
(* formats it as one line                                                   *)

L_error == <<"e", "r", "r", "o", "r">>
L_warn  == <<"w", "a", "r", "n">>
L_info  == <<"i", "n", "f", "o">>
L_debug == <<"d", "e", "b", "u", "g">>

\* the entry PackageLogger.log builds: the context fields are spread in only
\* when they are truthy (a non-empty string); sess or ref <<>> stands for a
\* context without that value
LogEntry(ts, lvl, pkg, msg, fn, ex, sess, ref) ==
  [k \in {"timestamp", "level", "package", "message", "filename", "line",
          "executionId"}
        \cup (IF sess # <<>> THEN {"sessionId"} ELSE {})
        \cup (IF ref # <<>> THEN {"reference"} ELSE {}) |->
     CASE k = "timestamp" -> ts
       [] k = "level" -> lvl
       [] k = "package" -> pkg
       [] k = "message" -> msg
       [] k = "filename" -> fn
       [] k = "line" -> <<"1">>
       [] k = "executionId" -> ex
       [] k = "sessionId" -> sess
       [] k = "reference" -> ref]

\* a value is truthy when it is there and is not the empty string
Truthy(obj, k) == k \in DOMAIN obj /\ obj[k] # <<>>

RECURSIVE JoinMembers(_)
\* the members of an object separated by commas
JoinMembers(ms) ==
  IF ms = <<>> THEN <<>>
  ELSE IF Len(ms) = 1 THEN <<ms[1]>>
  ELSE <<ms[1], COMMA>> \o JoinMembers(Tail(ms))

\* orderedJsonFormat: the seven required fields in order, then sessionId and
\* reference when truthy, as one JSON object
orderedJsonFormat(info) ==
  LET required == <<"timestamp", "level", "package", "message", "filename",
                    "line", "executionId">>
      ordered == [i \in 1..7 |-> Member(required[i], info[required[i]])]
                 \o (IF Truthy(info, "sessionId")
                     THEN <<Member("sessionId", info["sessionId"])>> ELSE <<>>)
                 \o (IF Truthy(info, "reference")
                     THEN <<Member("reference", info["reference"])>> ELSE <<>>)
  IN  <<LBRACE>> \o JoinMembers(ordered) \o <<RBRACE>>

----------------------------------------------------------------------------
(* applyFilters *)

\* property access: the value of a property that is there
HasProp(obj, k) == k \in DOMAIN obj

\* options.<dim> && options.<dim>.length > 0
ListGiven(opts, dim) == HasProp(opts, dim) /\ Len(opts[dim]) > 0

\* options.level.includes(log.level), and the same for package and
\* executionId: a property that is missing is undefined, which no list holds
FieldMatches(log, opts, dim) ==
  HasProp(log, dim) /\ includes(opts[dim], log[dim])

\* OptionalFieldMatches with absence taken as a wildcard
OptionalFieldMatchesAbsentPasses(log, opts, dim) ==
  ~Truthy(log, dim) \/ includes(opts[dim], log[dim])

\* log.sessionId && options.sessionId.includes(log.sessionId), and the same
\* for reference
OptionalFieldMatches(log, opts, dim) ==
  Truthy(log, dim) /\ includes(opts[dim], log[dim])

\* SearchMatches comparing the fields as they are written, only the search
\* text lower-cased
SearchMatchesCaseSensitive(log, opts) ==
  LET searchLower == toLowerCase(opts["search"])
  IN  \/ includesStr(log["message"], searchLower)
      \/ includesStr(log["package"], searchLower)
      \/ includesStr(log["filename"], searchLower)
      \/ /\ Truthy(log, "sessionId")
         /\ includesStr(log["sessionId"], searchLower)
      \/ /\ Truthy(log, "reference")
         /\ includesStr(log["reference"], searchLower)

\* the callback of the search filter
SearchMatches(log, opts) ==
  LET searchLower == toLowerCase(opts["search"])
  IN  \/ includesStr(toLowerCase(log["message"]), searchLower)
      \/ includesStr(toLowerCase(log["package"]), searchLower)
      \/ includesStr(toLowerCase(log["filename"]), searchLower)
      \/ /\ Truthy(log, "sessionId")
         /\ includesStr(toLowerCase(log["sessionId"]), searchLower)
      \/ /\ Truthy(log, "reference")
         /\ includesStr(toLowerCase(log["reference"]), searchLower)

\* one filter stage: filtered = filtered.filter(...) when the dimension is given
FilterStage(logs, opts, dim) ==
  LET keep(log) == FieldMatches(log, opts, dim)
  IN  IF ListGiven(opts, dim) THEN SelectSeq(logs, keep) ELSE logs

OptionalFilterStage(logs, opts, dim) ==
  LET keep(log) == OptionalFieldMatches(log, opts, dim)
  IN  IF ListGiven(opts, dim) THEN SelectSeq(logs, keep) ELSE logs

SearchStage(logs, opts) ==
  LET keep(log) == SearchMatches(log, opts)
  IN  IF Truthy(opts, "search") THEN SelectSeq(logs, keep) ELSE logs

\* the value JSON.parse builds for the literal null: reading a property of
\* it throws a TypeError
IsNull(log) == HasProp(log, "__scalar") /\ log["__scalar"] = <<"n", "u", "l", "l">>

\* one of the five list filters is given
AnyListGiven(opts) ==
  \E dim \in {"level", "package", "executionId", "sessionId", "reference"} :
    ListGiven(opts, dim)

\* the callback of the search filter throws a TypeError: the record is null,
\* or message, package or filename is read, evaluated from left to right as
\* far as || goes, and is undefined, which has no toLowerCase
SearchThrowsOn(log, opts) ==
  LET searchLower == toLowerCase(opts["search"])
      found(k) == includesStr(toLowerCase(log[k]), searchLower)
  IN  IF IsNull(log) \/ ~HasProp(log, "message") THEN TRUE
      ELSE IF found("message") THEN FALSE
      ELSE IF ~HasProp(log, "package") THEN TRUE
      ELSE IF found("package") THEN FALSE
      ELSE ~HasProp(log, "filename")

\* the list stages of applyFilters, which come before the search
ListStages(logs, opts) ==
  LET f1 == FilterStage(logs, opts, "level")
      f2 == FilterStage(f1, opts, "package")
      f3 == FilterStage(f2, opts, "executionId")
      f4 == OptionalFilterStage(f3, opts, "sessionId")
  IN  OptionalFilterStage(f4, opts, "reference")

\* applyFilters throws a TypeError: the first list filter that is given
\* reads a property of every record, a null among them, and the search reads
\* the records the list filters have left
applyFiltersThrows(logs, opts) ==
  IF AnyListGiven(opts) /\ \E i \in 1..Len(logs) : IsNull(logs[i]) THEN TRUE
  ELSE IF ~Truthy(opts, "search") THEN FALSE
  ELSE LET left == ListStages(logs, opts)
       IN  \E i \in 1..Len(left) : SearchThrowsOn(left[i], opts)

\* applyFilters without the executionId stage
applyFiltersSkipsExecutionId(logs, opts) ==
  LET f1 == FilterStage(logs, opts, "level")
      f2 == FilterStage(f1, opts, "package")
      f4 == OptionalFilterStage(f2, opts, "sessionId")
      f5 == OptionalFilterStage(f4, opts, "reference")
  IN  SearchStage(f5, opts)

applyFilters(logs, opts) ==
  LET f1 == FilterStage(logs, opts, "level")
      f2 == FilterStage(f1, opts, "package")
      f3 == FilterStage(f2, opts, "executionId")
      f4 == OptionalFilterStage(f3, opts, "sessionId")
      f5 == OptionalFilterStage(f4, opts, "reference")
  IN  SearchStage(f5, opts)

----------------------------------------------------------------------------
(* applySorting *)

\* the levels ranked by their names
LEVEL_ORDER_Alphabetical(level) ==
  CASE level = L_debug -> 0
    [] level = L_error -> 1
    [] level = L_info -> 2
    [] level = L_warn -> 3

LEVEL_ORDER(level) ==
  CASE level = L_error -> 0
    [] level = L_warn -> 1
    [] level = L_info -> 2
    [] level = L_debug -> 3

\* a direction that is descending whatever the call asks for
SortDirectionDescending(opts) == -1

\* const order = sortOrder === 'asc' ? 1 : -1
SortDirection(opts) ==
  IF HasProp(opts, "sortOrder") /\ opts["sortOrder"] = "asc" THEN 1 ELSE -1

\* a.sessionId || ''
OrEmpty(log, k) == IF Truthy(log, k) THEN log[k] ELSE <<>>

\* the argument of localeCompare as a string: String(undefined) for a
\* property that is not there
ArgumentOf(log, k) ==
  IF HasProp(log, k) THEN log[k] ELSE <<"u", "n", "d", "e", "f", "i", "n", "e", "d">>

\* LEVEL_ORDER has the level of the record
KnownLevel(log) ==
  HasProp(log, "level") /\ log["level"] \in {L_error, L_warn, L_info, L_debug}

\* the key of the comparator that reads a[key].localeCompare, if any
DereferencedKey(opts) ==
  LET sortBy == IF HasProp(opts, "sortBy") THEN opts["sortBy"] ELSE "undefined"
  IN  CASE sortBy \in {"package", "executionId"} -> sortBy
        [] sortBy \in {"level", "sessionId", "reference"} -> "none"
        [] OTHER -> "timestamp"

\* the comparator throws a TypeError: a property of null is read, or
\* localeCompare of a key that a does not have
ComparatorThrows(a, b, opts) ==
  \/ IsNull(a)
  \/ IsNull(b)
  \/ DereferencedKey(opts) # "none" /\ ~HasProp(a, DereferencedKey(opts))

\* the comparator handed to Array.prototype.sort, where it does not throw; a
\* difference of levels that is NaN counts as 0 in the sort
Comparator(a, b, opts) ==
  LET sortBy == IF HasProp(opts, "sortBy") THEN opts["sortBy"] ELSE "undefined"
      order == SortDirection(opts)
  IN  CASE sortBy = "level" ->
             IF KnownLevel(a) /\ KnownLevel(b)
             THEN (LEVEL_ORDER(a["level"]) - LEVEL_ORDER(b["level"])) * order
             ELSE 0
        [] sortBy = "package" ->
             localeCompare(a["package"], ArgumentOf(b, "package")) * order
        [] sortBy = "executionId" ->
             localeCompare(a["executionId"], ArgumentOf(b, "executionId")) * order
        [] sortBy = "sessionId" ->
             localeCompare(OrEmpty(a, "sessionId"), OrEmpty(b, "sessionId")) * order
        [] sortBy = "reference" ->
             localeCompare(OrEmpty(a, "reference"), OrEmpty(b, "reference")) * order
        [] OTHER ->
             localeCompare(a["timestamp"], ArgumentOf(b, "timestamp")) * order

RECURSIVE InsertPositionBeforeEquals(_, _, _, _)
\* InsertPosition putting x before the elements it compares equal to
InsertPositionBeforeEquals(done, x, opts, j) ==
  IF j >= 1 /\ Comparator(x, done[j], opts) <= 0
  THEN InsertPositionBeforeEquals(done, x, opts, j - 1)
  ELSE j

RECURSIVE InsertPosition(_, _, _, _)
\* where the insertion sort puts x among the j first, already sorted, elements:
\* after the last one x does not compare below
InsertPosition(done, x, opts, j) ==
  IF j >= 1 /\ Comparator(x, done[j], opts) < 0
  THEN InsertPosition(done, x, opts, j - 1)
  ELSE j

RECURSIVE SortFrom(_, _, _, _)
\* Array.prototype.sort on a short array: an insertion sort, element i of logs
\* inserted into the sorted prefix
SortFrom(logs, done, opts, i) ==
  IF i > Len(logs) THEN done
  ELSE LET j == InsertPosition(done, logs[i], opts, Len(done))
       IN  SortFrom(logs,
                    SubSeq(done, 1, j) \o <<logs[i]>> \o SubSeq(done, j + 1, Len(done)),
                    opts, i + 1)

\* [...logs].sort(comparator)
applySorting(logs, opts) == SortFrom(logs, <<>>, opts, 1)

\* the sort throws a TypeError: with two records or more, every record but
\* the first is the first argument of the comparator at least once, the
\* first time against a record before it, and the first record is the second
\* argument of the first call
applySortingThrows(logs, opts) ==
  /\ Len(logs) >= 2
  /\ \E i \in 2..Len(logs) : ComparatorThrows(logs[i], logs[1], opts)

----------------------------------------------------------------------------
(* The log directory *)

HazoPrefix == <<"h", "a", "z", "o", "-">>

LogSuffix == <<".", "l", "o", "g">>

\* `hazo-${targetDate}.log`
LogFileName(date) == HazoPrefix \o date \o LogSuffix

\* \d
IsDigit(c) == c \in {"0", "1", "2", "3", "4", "5", "6", "7", "8", "9"}

\* file.match(/^hazo-(\d{4}-\d{2}-\d{2})\.log$/): the name is matched from
\* its first to its last character
MatchesLogFileName(name) ==
  /\ Len(name) = 19
  /\ SubSeq(name, 1, 5) = HazoPrefix
  /\ \A i \in {6, 7, 8, 9, 11, 12, 14, 15} : IsDigit(name[i])
  /\ name[10] = "-"
  /\ name[13] = "-"
  /\ SubSeq(name, 16, 19) = LogSuffix

\* match[1], the group of the date
MatchedDate(name) == SubSeq(name, 6, 15)

\* the comparator in the ascending direction
compareDatesAscending(a, b) == localeCompare(a, b)

\* (a, b) => b.localeCompare(a)
compareDates(a, b) == localeCompare(b, a)

RECURSIVE InsertDate(_, _)
\* a date put into a sorted array, after the dates the comparator does not
\* put behind it
InsertDate(done, x) ==
  IF done = <<>> THEN <<x>>
  ELSE IF compareDates(x, Head(done)) < 0 THEN <<x>> \o done
  ELSE <<Head(done)>> \o InsertDate(Tail(done), x)

RECURSIVE sortDates(_, _)
\* dates.sort(comparator)
sortDates(dates, done) ==
  IF dates = <<>> THEN done
  ELSE sortDates(Tail(dates), InsertDate(done, Head(dates)))

RECURSIVE matchedDates(_, _)
\* for (const file of files) { match ... dates.push(match[1]) }
matchedDates(files, dates) ==
  IF files = <<>> THEN dates
  ELSE IF MatchesLogFileName(Head(files))
       THEN matchedDates(Tail(files), Append(dates, MatchedDate(Head(files))))
       ELSE matchedDates(Tail(files), dates)

\* getAvailableLogDates on a directory and its listing
getAvailableLogDates(files, dirThere) ==
  IF ~dirThere THEN <<>>
  ELSE sortDates(matchedDates(files, <<>>), <<>>)

\* the date of the day: getTodayDate()
Today == <<"2", "0", "2", "3", "-", "0", "1", "-", "1", "0">>

\* the directory after a file of that name was created in it
WithFile(files, name) ==
  IF includes(files, name) THEN files ELSE Append(files, name)

----------------------------------------------------------------------------
(* readLogs *)

DEFAULT_PAGE_SIZE == 50
DEFAULT_MAX_RESULTS == 1000

Min(a, b) == IF a < b THEN a ELSE b
Max(a, b) == IF a > b THEN a ELSE b

\* Array.prototype.slice(start, end) on 0-based indices: a negative index
\* counts from the end, both are clamped to the array
slice(arr, start, end) ==
  LET n == Len(arr)
      from == IF start < 0 THEN Max(n + start, 0) ELSE Min(start, n)
      to == IF end < 0 THEN Max(n + end, 0) ELSE Min(end, n)
  IN  SubSeq(arr, from + 1, to)

\* a number option or its fallback: x || fallback
NumberOr(obj, k, fallback) ==
  IF HasProp(obj, k) /\ obj[k] # 0 THEN obj[k] ELSE fallback

\* const pageSize = options.pageSize || config.log_viewer_page_size || 50
PageSizeOf(opts, cfg) ==
  NumberOr(opts, "pageSize", NumberOr(cfg, "log_viewer_page_size", DEFAULT_PAGE_SIZE))

\* a page that moves on with every result a caller has kept, as a reader
\* with a cursor would
PageOfCursor(opts) == NumberOr(opts, "page", 1) + Len(calls)

\* const page = options.page || 1
PageOf(opts) == NumberOr(opts, "page", 1)

\* const maxResults = config.log_viewer_max_results || 1000
MaxResultsOf(cfg) == NumberOr(cfg, "log_viewer_max_results", DEFAULT_MAX_RESULTS)

\* LimitResults keeping one record too many
LimitResultsOffByOne(logs, maxResults) ==
  IF Len(logs) > maxResults THEN slice(logs, 0, maxResults + 1) ELSE logs

\* LimitResults keeping the last maxResults records
LimitResultsNewest(logs, maxResults) ==
  IF Len(logs) > maxResults THEN slice(logs, Len(logs) - maxResults, Len(logs)) ELSE logs

\* if (logs.length > maxResults) logs = logs.slice(0, maxResults)
LimitResults(logs, maxResults) ==
  IF Len(logs) > maxResults THEN slice(logs, 0, maxResults) ELSE logs

\* Math.floor in the place of Math.ceil
TotalPagesFloor(total, pageSize) == total \div pageSize

\* Math.ceil(total / pageSize), total >= 0
TotalPages(total, pageSize) ==
  IF pageSize > 0
  THEN IF total % pageSize = 0 THEN total \div pageSize
       ELSE (total \div pageSize) + 1
  ELSE 0 - (total \div (0 - pageSize))

\* Paginate with the page taken as 0-based
PaginateZeroBased(logs, page, pageSize) ==
  LET startIndex == page * pageSize
  IN  slice(logs, startIndex, startIndex + pageSize)

\* logs.slice(startIndex, startIndex + pageSize)
Paginate(logs, page, pageSize) ==
  LET startIndex == (page - 1) * pageSize
  IN  slice(logs, startIndex, startIndex + pageSize)

\* the result for a missing file with the page and the page size of the
\* defaults, whatever the call asked for
MissingFileResultOfDefaults(opts, cfg) ==
  [logs |-> <<>>, total |-> 0, page |-> 1,
   pageSize |-> NumberOr(cfg, "log_viewer_page_size", DEFAULT_PAGE_SIZE),
   totalPages |-> 0]

\* the result when the day's file is missing
MissingFileResult(opts, cfg) ==
  [logs |-> <<>>, total |-> 0, page |-> PageOf(opts),
   pageSize |-> PageSizeOf(opts, cfg), totalPages |-> 0]

NoResult == [logs |-> <<>>, total |-> 0, page |-> 0, pageSize |-> 0, totalPages |-> 0]

\* readLogs rejects with the TypeError that applyFilters or applySorting
\* throws on the records of the file
readLogsThrows(f, opts, cfg) ==
  LET logs == parseLogFile(f)
  IN  IF applyFiltersThrows(logs, opts) THEN TRUE
      ELSE applySortingThrows(LimitResults(applyFilters(logs, opts), MaxResultsOf(cfg)),
                              opts)

\* readLogs(options): one call, from loadConfig to the returned result
ReadLogs(opts) ==
  /\ pc = "idle"
  /\ options' = opts
  /\ IF ~exists
     THEN /\ pc' = "done"
          /\ result' = MissingFileResult(opts, config)
          /\ UNCHANGED <<parsed, filtered, capped, sorted>>
     ELSE IF readLogsThrows(file, opts, config)
     THEN /\ pc' = "threw"
          /\ parsed' = parseLogFile(file)
          /\ result' = NoResult
          /\ UNCHANGED <<filtered, capped, sorted>>
     ELSE /\ pc' = "done"
          /\ parsed' = parseLogFile(file)
          /\ filtered' = applyFilters(parsed', opts)
          /\ capped' = LimitResults(filtered', MaxResultsOf(config))
          /\ sorted' = applySorting(capped', opts)
          /\ result' = [logs |-> Paginate(sorted', PageOf(opts), PageSizeOf(opts, config)),
                        total |-> Len(capped'),
                        page |-> PageOf(opts),
                        pageSize |-> PageSizeOf(opts, config),
                        totalPages |-> TotalPages(Len(capped'), PageSizeOf(opts, config))]
  /\ UNCHANGED <<file, exists, config>>

\* the caller has taken the result; the next call starts afresh
Return ==
  /\ pc # "idle"
  /\ pc' = "idle"
  /\ options' = <<>>
  /\ parsed' = <<>>
  /\ filtered' = <<>>
  /\ capped' = <<>>
  /\ sorted' = <<>>
  /\ result' = NoResult
  /\ UNCHANGED <<file, exists, config>>
  /\ UNCHANGED auxVars

\* the writer appends one line to the day's file, creating the directory
\* and the file on first use
AppendLine(line, maxLines) ==
  /\ pc = "idle"
  /\ Len(file) < maxLines
  /\ file' = Append(file, line)
  /\ exists' = TRUE
  /\ dirExists' = TRUE
  /\ dir' = WithFile(dir, LogFileName(Today))
  /\ UNCHANGED <<config, pc, options, parsed, filtered, capped, sorted, result>>
  /\ UNCHANGED callerVars

\* the logging engine writes one entry
WriteEntry(info, maxLines) == AppendLine(orderedJsonFormat(info), maxLines)

\* no log directory yet, nothing kept by any caller
InitAux ==
  /\ dir = <<>>
  /\ dirExists = FALSE
  /\ calls = <<>>
  /\ readable = TRUE
  /\ request = <<>>
  /\ response = [settled |-> "pending", status |-> 0, body |-> <<>>, error |-> ""]
  /\ fsReads = {}
  /\ authPc = "idle"
  /\ authResult = "none"
  /\ innerCalls = 0
  /\ dependenciesLoaded = FALSE
  /\ loadPromise = "null"
  /\ instance = 0
  /\ instancePromise = 0
  /\ promises = <<>>
  /\ waiting = {}
  /\ constructed = 0
  /\ epoch = 0
  /\ returned = {}
  /\ initialized = FALSE
  /\ logContextStorage = "clientStubStorage"
  /\ store = <<>>
  /\ frames = <<>>
  /\ suspended = {}
  /\ iniFile = [exists |-> FALSE, readable |-> TRUE, section |-> <<>>]
  /\ configLoaded = FALSE
  /\ inFlight = <<>>
  /\ writerSequence = <<>>
  /\ streamed = [open |-> FALSE, lines |-> <<>>]
  /\ coreLogger = [constructed |-> FALSE, executionId |-> <<>>]
  /\ coreLoggerPromise = "null"
  /\ initPromise = [state |-> "none",
                    logger |-> [constructed |-> FALSE, executionId |-> <<>>]]
  /\ queued = <<>>
  /\ delivered = <<>>
  /\ reported = <<>>
  /\ logCalls = 0
  /\ clientLogger = [created |-> FALSE, minLevel |-> <<"d", "e", "b", "u", "g">>]
  /\ clientCalls = <<>>
  /\ logBatch = <<>>
  /\ batchTimer = "null"
  /\ pendingTimers = 0
  /\ timerCallback = "idle"
  /\ posts = <<>>
  /\ beforeUnloads = 0
  /\ unloaded = FALSE

\* the state before anything has run, in the environment env
InitIn(cfg, env) ==
  /\ InitAux
  /\ environment = env
  /\ file = <<>>
  /\ exists = FALSE
  /\ config = cfg
  /\ pc = "idle"
  /\ options = <<>>
  /\ parsed = <<>>
  /\ filtered = <<>>
  /\ capped = <<>>
  /\ sorted = <<>>
  /\ result = NoResult

\* the state of a server process before anything has run
InitWith(cfg) == InitIn(cfg, "server")

DEFAULT_CONFIG ==
  [log_directory |-> <<".", "/", "l", "o", "g", "s">>,
   log_level |-> L_info,
   enable_console |-> TRUE,
   enable_file |-> TRUE,
   max_file_size |-> <<"2", "0", "m">>,
   max_files |-> <<"1", "4", "d">>,
   date_pattern |-> <<"Y", "Y", "Y", "Y", "-", "M", "M", "-", "D", "D">>,
   enable_log_viewer |-> TRUE,
   log_viewer_page_size |-> DEFAULT_PAGE_SIZE,
   log_viewer_max_results |-> DEFAULT_MAX_RESULTS]

----------------------------------------------------------------------------
(* The parser on arbitrary file contents *)

REQUIRED_FIELDS ==
  {"timestamp", "level", "package", "message", "filename", "line", "executionId"}

\* an entry as the logging engine writes it
SampleEntry ==
  LogEntry(<<"1">>, L_info, <<"p">>, <<"a">>, <<"f">>, <<"1">>, <<"s", "1">>, <<>>)

\* lines a day's file can hold: written entries, blank lines, text that is
\* no JSON, a write cut short, and JSON that is no complete entry
ParseLineChoices ==
  { <<>>,
    <<WS>>,
    <<WS, WS>>,
    <<JUNK>>,
    <<WS, JUNK>>,
    orderedJsonFormat(SampleEntry),
    <<WS>> \o orderedJsonFormat(SampleEntry) \o <<WS>>,
    SubSeq(orderedJsonFormat(SampleEntry), 1, 4),
    <<LBRACE, Member("level", L_info), Member("message", <<"a">>), RBRACE>>,
    <<LBRACE, Member("level", L_info), COMMA, Member("level", L_warn), RBRACE>>,
    <<LBRACE, Member("level", L_error), RBRACE>>,
    <<LBRACE, RBRACE>>,
    <<Scalar(<<"4", "2">>)>> }

\* any line gets into the file: by the writer, by a crash in mid-write, by hand
AppendAnyLine == \E line \in ParseLineChoices : AppendLine(line, MaxLines)

\* parseLogFile(filePath) on the file as it is
ParseLogFile ==
  /\ pc = "idle"
  /\ exists
  /\ pc' = "parsed"
  /\ parsed' = parseLogFile(file)
  /\ UNCHANGED <<file, exists, config, options, filtered, capped, sorted, result>>
  /\ UNCHANGED auxVars

InitParse == InitWith(DEFAULT_CONFIG)

NextParse == AppendAnyLine \/ ParseLogFile \/ Return

SpecParse == InitParse /\ [][NextParse]_vars

----------------------------------------------------------------------------
(* Queries with filters *)

\* entries of two executions, three packages' worth of fields, with and
\* without a session and a reference
FilterEntries ==
  { LogEntry(<<"1">>, L_error, <<"p">>, <<"A", "b">>, <<"f">>, <<"1">>, <<>>, <<>>),
    LogEntry(<<"1">>, L_info, <<"q">>, <<"b">>, <<"f">>, <<"1">>, <<"s", "1">>, <<>>),
    LogEntry(<<"2">>, L_error, <<"q">>, <<"b">>, <<"f">>, <<"2">>, <<"s", "2">>, <<"r", "1">>),
    LogEntry(<<"2">>, L_info, <<"p">>, <<"a">>, <<"f">>, <<"2">>, <<>>, <<"r", "1">>),
    LogEntry(<<"3">>, L_debug, <<"p">>, <<"b", "a">>, <<"F">>, <<"1">>, <<"S", "1">>, <<"R", "1">>),
    LogEntry(<<"3">>, L_error, <<"p">>, <<"a">>, <<"f">>, <<"1">>, <<"s", "1">>, <<"r", "1">>) }

\* an option that is not passed
NotGiven == <<>>

\* the filter options of a call: every dimension not passed, or passed with
\* one of a few values (among them the empty list and the empty search text)
FilterOptionChoices ==
  { l @@ p @@ e @@ s @@ r @@ q :
      l \in {NotGiven, "level" :> <<L_error>>, "level" :> <<L_info, L_error>>},
      p \in {NotGiven, "package" :> <<<<"p">>>>},
      e \in {NotGiven, "executionId" :> <<<<"1">>>>},
      s \in {NotGiven, "sessionId" :> <<>>, "sessionId" :> <<<<"s", "1">>>>},
      r \in {NotGiven, "reference" :> <<<<"r", "1">>>>},
      q \in {NotGiven, "search" :> <<>>, "search" :> <<"a", "B">>,
             "search" :> <<"S", "1">>, "search" :> <<"F">>} }

WriteFilterEntry == \E info \in FilterEntries : WriteEntry(info, MaxFilterLines)

QueryFiltered == \E opts \in FilterOptionChoices : ReadLogs(opts) /\ UNCHANGED auxVars

InitFilter == InitWith(DEFAULT_CONFIG)

NextFilter == WriteFilterEntry \/ QueryFiltered \/ Return

SpecFilter == InitFilter /\ [][NextFilter]_vars

----------------------------------------------------------------------------
(* Queries with a sort key *)

\* entries of all four levels; some agree on a sort key and differ elsewhere
SortEntries ==
  { LogEntry(<<"1">>, L_error, <<"b">>, <<"a">>, <<"f">>, <<"2">>, <<>>, <<>>),
    LogEntry(<<"2">>, L_warn, <<"a">>, <<"a">>, <<"f">>, <<"1">>, <<"s", "1">>, <<"r", "1">>),
    LogEntry(<<"3">>, L_info, <<"A">>, <<"a">>, <<"f">>, <<"1">>, <<"s", "2">>, <<>>),
    LogEntry(<<"1">>, L_debug, <<"a">>, <<"b">>, <<"f">>, <<"2">>, <<"s", "1">>, <<"r", "2">>),
    LogEntry(<<"2">>, L_error, <<"B">>, <<"b">>, <<"f">>, <<"1">>, <<>>, <<"r", "1">>),
    LogEntry(<<"1", "0">>, L_info, <<"a", "b">>, <<"b">>, <<"f">>, <<"1", "0">>, <<"s">>, <<"r">>) }

\* the sort options of a call: each not passed, a supported value, or a
\* value that is not supported
SortOptionChoices ==
  { k @@ o :
      k \in {NotGiven} \cup
            {"sortBy" :> key : key \in {"timestamp", "level", "package", "executionId",
                                         "sessionId", "reference", "bogus"}},
      o \in {NotGiven, "sortOrder" :> "asc", "sortOrder" :> "desc"} }

WriteSortEntry == \E info \in SortEntries : WriteEntry(info, MaxLines)

QuerySorted == \E opts \in SortOptionChoices : ReadLogs(opts) /\ UNCHANGED auxVars

InitSort == InitWith(DEFAULT_CONFIG)

NextSort == WriteSortEntry \/ QuerySorted \/ Return

SpecSort == InitSort /\ [][NextSort]_vars

----------------------------------------------------------------------------
(* Queries with a cap and pages *)

PageEntries ==
  { LogEntry(<<"1">>, L_error, <<"p">>, <<"a">>, <<"f">>, <<"1">>, <<>>, <<>>),
    LogEntry(<<"2">>, L_info, <<"q">>, <<"b">>, <<"f">>, <<"1">>, <<>>, <<>>) }

\* the configurations loadConfig() can return: the defaults, or a smaller
\* maximum of results
PageConfigChoices ==
  { [DEFAULT_CONFIG EXCEPT !.log_viewer_max_results = m] :
      m \in (1..MaxLines) \cup {DEFAULT_MAX_RESULTS} }

\* the options of a call: a level filter or none, a page and a page size or none
PageOptionChoices ==
  { l @@ n @@ z :
      l \in {NotGiven, "level" :> <<L_error>>},
      n \in {NotGiven} \cup {"page" :> x : x \in 1..(MaxLines + 1)},
      z \in {NotGiven} \cup {"pageSize" :> x : x \in 1..MaxLines} }

WritePageEntry == \E info \in PageEntries : WriteEntry(info, MaxLines)

\* a line that is no entry gets into the file
WriteNoise == AppendLine(<<JUNK>>, MaxLines)

QueryPage == \E opts \in PageOptionChoices : ReadLogs(opts) /\ UNCHANGED auxVars

InitPage == \E cfg \in PageConfigChoices : InitWith(cfg)

NextPage == WritePageEntry \/ WriteNoise \/ QueryPage \/ Return

SpecPage == InitPage /\ [][NextPage]_vars

----------------------------------------------------------------------------
(* Metadata queries *)

\* the UTF-16 code unit of a character
CodeUnit(c) ==
  CASE c = "-" -> 45
    [] c = "." -> 46
    [] c = "0" -> 48
    [] c = "1" -> 49
    [] c = "2" -> 50
    [] c = "3" -> 51
    [] c = "A" -> 65
    [] c = "B" -> 66
    [] c = "F" -> 70
    [] c = "P" -> 80
    [] c = "R" -> 82
    [] c = "S" -> 83
    [] c = "a" -> 97
    [] c = "b" -> 98
    [] c = "f" -> 102
    [] c = "p" -> 112
    [] c = "r" -> 114
    [] c = "s" -> 115
    [] OTHER -> 122

\* a comparison of sort() by the collation of localeCompare
defaultCompareByLocale(s, t) == localeCompare(s, t)

\* the comparison Array.prototype.sort makes when no comparator is passed:
\* the strings are compared by their sequences of code units
defaultCompare(s, t) ==
  CompareWeights([i \in 1..Len(s) |-> CodeUnit(s[i])],
                 [i \in 1..Len(t) |-> CodeUnit(t[i])], 1)

RECURSIVE SortedInsert(_, _)
\* x put into a sorted array, after the values that are not greater
SortedInsert(done, x) ==
  IF done = <<>> THEN <<x>>
  ELSE IF defaultCompare(x, Head(done)) < 0 THEN <<x>> \o done
  ELSE <<Head(done)>> \o SortedInsert(Tail(done), x)

RECURSIVE sortDefault(_, _)
\* Array.prototype.sort() without a comparator
sortDefault(values, done) ==
  IF values = <<>> THEN done
  ELSE sortDefault(Tail(values), SortedInsert(done, Head(values)))

RECURSIVE collect(_, _, _)
\* for (const log of logs) if (log.field) set.add(log.field): a Set keeps
\* each value once, in the order of the first insertion
collect(logs, field, set) ==
  IF logs = <<>> THEN set
  ELSE LET log == Head(logs)
       IN  IF Truthy(log, field) /\ ~includes(set, log[field])
           THEN collect(Tail(logs), field, Append(set, log[field]))
           ELSE collect(Tail(logs), field, set)

\* the body the four metadata queries share: no file, no values; else the
\* whole file is parsed, the values are collected and sorted
UniqueValues(f, ex, field) ==
  IF ~ex THEN <<>>
  ELSE sortDefault(collect(parseLogFile(f), field, <<>>), <<>>)

\* if (log.field) throws a TypeError on a record that is null
UniqueValuesThrows(f, ex) ==
  /\ ex
  /\ \E i \in 1..Len(parseLogFile(f)) : IsNull(parseLogFile(f)[i])

getUniquePackages(f, ex) == UniqueValues(f, ex, "package")

getUniqueExecutionIds(f, ex) == UniqueValues(f, ex, "executionId")

getUniqueSessionIds(f, ex) == UniqueValues(f, ex, "sessionId")

getUniqueReferences(f, ex) == UniqueValues(f, ex, "reference")

MetadataFields == {"package", "executionId", "sessionId", "reference"}

\* one metadata query, from loadConfig to the returned list
GetUnique(field) ==
  /\ pc = "idle"
  /\ pc' = IF UniqueValuesThrows(file, exists) THEN "threw" ELSE "unique"
  /\ options' = ("field" :> field)
  /\ parsed' = IF exists THEN parseLogFile(file) ELSE parsed
  /\ result' = IF UniqueValuesThrows(file, exists) THEN <<>>
               ELSE CASE field = "package" -> getUniquePackages(file, exists)
                      [] field = "executionId" -> getUniqueExecutionIds(file, exists)
                      [] field = "sessionId" -> getUniqueSessionIds(file, exists)
                      [] field = "reference" -> getUniqueReferences(file, exists)
  /\ UNCHANGED <<file, exists, config, filtered, capped, sorted>>

\* entries that repeat values, that lack a session or a reference, and whose
\* values differ in case
MetaEntries ==
  { LogEntry(<<"1">>, L_info, <<"b">>, <<"a">>, <<"f">>, <<"2">>, <<>>, <<>>),
    LogEntry(<<"2">>, L_info, <<"B">>, <<"a">>, <<"f">>, <<"1">>, <<"s", "1">>, <<"r">>),
    LogEntry(<<"3">>, L_error, <<"a">>, <<"a">>, <<"f">>, <<"1", "0">>, <<"S">>, <<"R">>),
    LogEntry(<<"3">>, L_error, <<"b">>, <<"b">>, <<"f">>, <<"1">>, <<"s">>, <<>>) }

\* the configurations of the metadata specification: the defaults, or one
\* result at most
MetaConfigChoices ==
  { [DEFAULT_CONFIG EXCEPT !.log_viewer_max_results = m] :
      m \in {1, DEFAULT_MAX_RESULTS} }

\* readLogs options of the metadata specification: a page and a page size or none
MetaOptionChoices ==
  { n @@ z : n \in {NotGiven, "page" :> 2}, z \in {NotGiven, "pageSize" :> 1} }

WriteMetaEntry == \E info \in MetaEntries : WriteEntry(info, MaxLines)

QueryUnique == \E field \in MetadataFields : GetUnique(field) /\ UNCHANGED auxVars

QueryLogs == \E opts \in MetaOptionChoices : ReadLogs(opts) /\ UNCHANGED auxVars

InitMeta == \E cfg \in MetaConfigChoices : InitWith(cfg)

NextMeta == WriteMetaEntry \/ WriteNoise \/ QueryUnique \/ QueryLogs \/ Return

SpecMeta == InitMeta /\ [][NextMeta]_vars

----------------------------------------------------------------------------
(* The dates with logs *)

\* the most files created in the directory besides the day's file
MaxDirFiles == 3

\* names a log directory can list: day files of other dates, a rotated copy,
\* a file of another program, and names that miss the pattern by one detail
DirNameChoices ==
  { LogFileName(<<"2", "0", "2", "3", "-", "0", "1", "-", "0", "2">>),
    LogFileName(<<"2", "0", "2", "3", "-", "0", "2", "-", "0", "1">>),
    LogFileName(<<"2", "0", "2", "3", "-", "0", "1", "-", "0", "2">>) \o <<".", "1">>,
    <<"x">> \o LogFileName(<<"2", "0", "2", "3", "-", "0", "1", "-", "0", "2">>),
    LogFileName(<<"2", "0", "2", "3", "-", "1", "-", "0", "2">>),
    LogFileName(<<"2", "0", "a", "3", "-", "0", "1", "-", "0", "2">>),
    <<"a", ".", "l", "o", "g">> }

\* the log directory is created, empty
MakeDirectory ==
  /\ pc = "idle"
  /\ ~dirExists
  /\ dirExists' = TRUE
  /\ UNCHANGED <<file, exists, config, pc, options, parsed, filtered, capped, sorted,
                 result, dir>>
  /\ UNCHANGED callerVars

\* a file appears in the log directory; readdirSync lists the names in an
\* order of its own
CreateFile(name) ==
  /\ pc = "idle"
  /\ Len(dir) < MaxDirFiles
  /\ ~includes(dir, name)
  /\ dir' = Append(dir, name)
  /\ dirExists' = TRUE
  /\ UNCHANGED <<file, exists, config, pc, options, parsed, filtered, capped, sorted,
                 result>>
  /\ UNCHANGED callerVars

CreateAnyFile == \E name \in DirNameChoices : CreateFile(name)

\* getAvailableLogDates(logDirectory): one call
GetAvailableLogDates ==
  /\ pc = "idle"
  /\ pc' = "dates"
  /\ result' = getAvailableLogDates(dir, dirExists)
  /\ UNCHANGED <<file, exists, config, options, parsed, filtered, capped, sorted>>

ListDates == GetAvailableLogDates /\ UNCHANGED auxVars

InitDates == InitWith(DEFAULT_CONFIG)

NextDates == MakeDirectory \/ CreateAnyFile \/ WriteNoise \/ ListDates \/ Return

SpecDates == InitDates /\ [][NextDates]_vars

----------------------------------------------------------------------------
(* Repeated queries *)

\* the longest day file of the specification of repeated queries
MaxRepeatLines == 2

\* the most results a caller keeps
MaxCalls == 3

RepeatEntries ==
  { LogEntry(<<"1">>, L_error, <<"p">>, <<"a">>, <<"f">>, <<"1">>, <<>>, <<>>),
    LogEntry(<<"2">>, L_info, <<"q">>, <<"b">>, <<"f">>, <<"1">>, <<"s">>, <<>>) }

\* the options of a repeated call: none, a direction, a level filter
RepeatOptionChoices ==
  { NotGiven, "sortOrder" :> "asc", "level" :> <<L_error>> }

WriteRepeatEntry == \E info \in RepeatEntries : WriteEntry(info, MaxRepeatLines)

\* a call of readLogs by a caller that has room for its result
QueryRepeat ==
  /\ Len(calls) < MaxCalls
  /\ \E opts \in RepeatOptionChoices : ReadLogs(opts) /\ UNCHANGED auxVars

\* the caller keeps the result of the call together with the arguments and
\* with the file and the configuration the call met
KeepResult ==
  /\ pc = "done"
  /\ calls' = Append(calls, [options |-> options, file |-> file, exists |-> exists,
                              config |-> config, result |-> result])
  /\ pc' = "idle"
  /\ options' = <<>>
  /\ parsed' = <<>>
  /\ filtered' = <<>>
  /\ capped' = <<>>
  /\ sorted' = <<>>
  /\ result' = NoResult
  /\ UNCHANGED <<file, exists, config, dir, dirExists>>
  /\ UNCHANGED serverVars

InitRepeat == InitWith(DEFAULT_CONFIG)

NextRepeat == WriteRepeatEntry \/ QueryRepeat \/ KeepResult \/ Return

SpecRepeat == InitRepeat /\ [][NextRepeat]_vars

----------------------------------------------------------------------------
(* The API route: createLogApiHandler *)

\* the longest day file of the specification of the API route
MaxApiLines == 2

\* no request is being served
NoRequest == <<>>

\* the promise of the handler has not settled
NoResponse == [settled |-> "pending", status |-> 0, body |-> <<>>, error |-> ""]

\* jsonResponse(data, status): the promise is fulfilled with a response
jsonResponse(data, status) ==
  [settled |-> "fulfilled", status |-> status, body |-> data, error |-> ""]

\* the promise is rejected with an error
Rejection(error) == [settled |-> "rejected", status |-> 0, body |-> <<>>, error |-> error]

\* the value of a decimal digit
DigitValue(c) ==
  CASE c = "0" -> 0
    [] c = "1" -> 1
    [] c = "2" -> 2
    [] c = "3" -> 3
    [] c = "4" -> 4
    [] c = "5" -> 5
    [] c = "6" -> 6
    [] c = "7" -> 7
    [] c = "8" -> 8
    [] c = "9" -> 9

RECURSIVE SkipSpaces(_)
\* parseInt skips the white space a string begins with
SkipSpaces(s) ==
  IF s # <<>> /\ Head(s) = " " THEN SkipSpaces(Tail(s)) ELSE s

RECURSIVE LeadingDigits(_)
\* the longest prefix of digits
LeadingDigits(s) ==
  IF s # <<>> /\ IsDigit(Head(s)) THEN <<Head(s)>> \o LeadingDigits(Tail(s)) ELSE <<>>

RECURSIVE DigitsValue(_, _)
\* the number a sequence of digits denotes, after the value acc of the digits before
DigitsValue(ds, acc) ==
  IF ds = <<>> THEN acc ELSE DigitsValue(Tail(ds), 10 * acc + DigitValue(Head(ds)))

\* parseInt(s, 10): white space, a sign, then digits as far as they go; NaN
\* when there is no digit
parseInt(s) ==
  LET t == SkipSpaces(s)
      signed == t # <<>> /\ Head(t) \in {"-", "+"}
      ds == LeadingDigits(IF signed THEN Tail(t) ELSE t)
  IN  IF ds = <<>> THEN [nan |-> TRUE, n |-> 0]
      ELSE [nan |-> FALSE,
            n |-> IF signed /\ Head(t) = "-" THEN 0 - DigitsValue(ds, 0)
                  ELSE DigitsValue(ds, 0)]

RECURSIVE split(_, _, _)
\* String.prototype.split(','): the pieces between the commas, cur being the
\* piece in progress
split(s, cur, parts) ==
  IF s = <<>> THEN Append(parts, cur)
  ELSE IF Head(s) = "," THEN split(Tail(s), <<>>, Append(parts, cur))
  ELSE split(Tail(s), Append(cur, Head(s)), parts)

\* Boolean(piece): a piece that is not the empty string
NonEmpty(piece) == piece # <<>>

\* param ? param.split(',').filter(Boolean) : undefined
ListParam(params, k) ==
  IF Truthy(params, k)
  THEN k :> SelectSeq(split(params[k], <<>>, <<>>), NonEmpty)
  ELSE NotGiven

\* searchParams.get('search') || undefined
TextParam(params, k) ==
  IF Truthy(params, k) THEN k :> params[k] ELSE NotGiven

\* searchParams.get('sortBy'), handed on as it is; null when it is not there
RawParam(params, k) ==
  IF HasProp(params, k) THEN k :> params[k] ELSE NotGiven

\* parseInt(searchParams.get('page') || '1', 10).  NaN is falsy and readLogs
\* reads the option only as options.page || 1, so an option that is NaN is
\* an option that is not passed
NumberParam(params, k, default) ==
  LET n == parseInt(IF Truthy(params, k) THEN params[k] ELSE default)
  IN  IF n.nan THEN NotGiven ELSE k :> n.n

\* the options handleGetLogs hands to readLogs
ParamsToOptions(params) ==
  ListParam(params, "level") @@ ListParam(params, "package")
    @@ ListParam(params, "executionId") @@ ListParam(params, "sessionId")
    @@ ListParam(params, "reference") @@ TextParam(params, "search")
    @@ RawParam(params, "sortBy") @@ RawParam(params, "sortOrder")
    @@ NumberParam(params, "page", <<"1">>)
    @@ NumberParam(params, "pageSize", <<"5", "0">>)

\* try { return handler(...) } catch (error) { return jsonResponse(..., 500) }
\* in an async function: the promise of the handler is returned and not
\* awaited, so the promise of GET takes its state, rejected as well as
\* fulfilled; the catch sees only what is thrown before the handler returns
\* its promise, and an async handler throws nothing then
ReturnInTry(outcome) == outcome

\* handleGetLogs: readLogs rejects when the file that exists cannot be read
HandleGetLogs(params) ==
  IF exists /\ ~readable
  THEN /\ pc' = "done"
       /\ options' = ParamsToOptions(params)
       /\ fsReads' = {"file"}
       /\ response' = ReturnInTry(Rejection("EACCES"))
       /\ UNCHANGED <<parsed, filtered, capped, sorted, result>>
  ELSE /\ ReadLogs(ParamsToOptions(params))
       /\ fsReads' = IF exists THEN {"file"} ELSE {}
       /\ response' = IF pc' = "threw"
                      THEN ReturnInTry(Rejection("TypeError"))
                      ELSE ReturnInTry(jsonResponse(result', 200))

\* handleGetDates: readdirSync throws when the directory cannot be listed
HandleGetDates ==
  IF dirExists /\ ~readable
  THEN /\ pc' = "dates"
       /\ fsReads' = {"dir"}
       /\ response' = ReturnInTry(Rejection("EACCES"))
       /\ UNCHANGED <<options, parsed, filtered, capped, sorted, result>>
  ELSE /\ GetAvailableLogDates
       /\ fsReads' = IF dirExists THEN {"dir"} ELSE {}
       /\ response' = ReturnInTry(jsonResponse([dates |-> result'], 200))

\* handleGetPackages, handleGetExecutionIds, handleGetSessionIds,
\* handleGetReferences
HandleGetUnique(field) ==
  IF exists /\ ~readable
  THEN /\ pc' = "unique"
       /\ options' = ("field" :> field)
       /\ fsReads' = {"file"}
       /\ response' = ReturnInTry(Rejection("EACCES"))
       /\ UNCHANGED <<parsed, filtered, capped, sorted, result>>
  ELSE /\ GetUnique(field)
       /\ fsReads' = IF exists THEN {"file"} ELSE {}
       /\ response' = IF pc' = "threw"
                      THEN ReturnInTry(Rejection("TypeError"))
                      ELSE ReturnInTry(jsonResponse([values |-> result'], 200))

\* a viewer that is always enabled
ViewerEnabledAlways(cfg) == TRUE

\* hazoConfig.enable_log_viewer
ViewerEnabled(cfg) == cfg.enable_log_viewer

\* GET(request): from loadConfig to the settled promise
GET(req) ==
  /\ pc = "idle"
  /\ request' = req
  /\ IF ~ViewerEnabled(config)
     THEN /\ response' = jsonResponse("Log viewer is disabled", 403)
          /\ pc' = "responded"
          /\ fsReads' = {}
          /\ UNCHANGED <<options, parsed, filtered, capped, sorted, result>>
     ELSE CASE req.action = "dates" -> HandleGetDates
            [] req.action = "packages" -> HandleGetUnique("package")
            [] req.action = "executionIds" -> HandleGetUnique("executionId")
            [] req.action = "sessionIds" -> HandleGetUnique("sessionId")
            [] req.action = "references" -> HandleGetUnique("reference")
            [] OTHER -> HandleGetLogs(req.params)
  /\ UNCHANGED <<file, exists, config, dir, dirExists, calls, readable>>

\* the response has gone out; the route is ready for the next request
Respond ==
  /\ pc # "idle"
  /\ pc' = "idle"
  /\ options' = <<>>
  /\ parsed' = <<>>
  /\ filtered' = <<>>
  /\ capped' = <<>>
  /\ sorted' = <<>>
  /\ result' = NoResult
  /\ request' = NoRequest
  /\ response' = NoResponse
  /\ fsReads' = {}
  /\ UNCHANGED <<file, exists, config, dir, dirExists, calls, readable>>
  /\ UNCHANGED aroundApiVars

\* the permissions of the log directory change
ChangePermissions ==
  /\ pc = "idle"
  /\ readable' = ~readable
  /\ UNCHANGED <<file, exists, config, pc, options, parsed, filtered, capped, sorted,
                 result, dir, dirExists, calls, request, response, fsReads>>
  /\ UNCHANGED aroundApiVars

ApiEntries ==
  { LogEntry(<<"1">>, L_error, <<"p">>, <<"a">>, <<"f">>, <<"1">>, <<>>, <<>>),
    LogEntry(<<"2">>, L_info, <<"q">>, <<"b">>, <<"f">>, <<"1">>, <<"s">>, <<>>) }

\* the query strings of log requests: sort and page parameters that are
\* absent, valid, and invalid in several ways
SortPageParamChoices ==
  { k @@ o @@ n @@ z :
      k \in {NotGiven, "sortBy" :> "level", "sortBy" :> "bogus", "sortBy" :> ""},
      o \in {NotGiven, "sortOrder" :> "asc", "sortOrder" :> "desc", "sortOrder" :> "up"},
      n \in {NotGiven, "page" :> <<"2">>, "page" :> <<"a", "b">>,
             "page" :> <<"2", "x">>, "page" :> <<>>, "page" :> <<"0">>},
      z \in {NotGiven, "pageSize" :> <<"1">>, "pageSize" :> <<"z">>} }

\* the query strings of log requests with filters
FilterParamChoices ==
  { l @@ q :
      l \in {"level" :> L_error, "level" :> (L_error \o <<",">> \o L_info),
             "level" :> <<",">>, "level" :> <<>>},
      q \in {NotGiven, "search" :> <<"a">>} }

\* the requests: a metadata action, or a log query
RequestChoices ==
  { [action |-> a, params |-> NotGiven] :
      a \in {"dates", "packages", "executionIds", "sessionIds", "references"} }
  \cup { [action |-> "logs", params |-> p] :
           p \in SortPageParamChoices \cup FilterParamChoices }

\* the configurations of the API specification: the viewer enabled or not
ApiConfigChoices ==
  { [DEFAULT_CONFIG EXCEPT !.enable_log_viewer = b] : b \in BOOLEAN }

WriteApiEntry == \E info \in ApiEntries : WriteEntry(info, MaxApiLines)

ServeRequest == \E req \in RequestChoices : GET(req) /\ UNCHANGED aroundApiVars

InitApi == \E cfg \in ApiConfigChoices : InitWith(cfg)

NextApi == WriteApiEntry \/ MakeDirectory \/ ChangePermissions \/ ServeRequest \/ Respond

SpecApi == InitApi /\ [][NextApi]_vars

----------------------------------------------------------------------------
(* The wrapper withLogAuth *)

\* JavaScript values an authCheck can return, by name
FalsyValues == {"false", "undefined", "null", "0", "''"}

TruthyValues == {"true", "1", "'x'", "{}"}

\* the ways an authCheck can fail: a throw before its first await, or a
\* promise that is rejected
FailureChoices == {"throws", "rejects"}

\* a test that lets every value but false pass
IsAuthorizedUnlessFalse(v) == v # "false"

\* !isAuthorized is false: the value is truthy
IsAuthorized(v) == v \notin FalsyValues

\* the wrapped GET is called: authCheck(request) is called and awaited
WrappedGET(req) ==
  /\ authPc = "idle"
  /\ pc = "idle"
  /\ authPc' = "checking"
  /\ request' = req
  /\ UNCHANGED readerVars
  /\ UNCHANGED <<dir, dirExists, calls, readable, response, fsReads, authResult,
                 innerCalls>>
  /\ UNCHANGED <<loggerVars, libraryVars>>

\* authCheck has returned a value, or its promise is fulfilled with it: 401
\* when the value is falsy, else the wrapped handler is invoked and its
\* promise is returned
AuthCheckReturns(v) ==
  /\ authPc = "checking"
  /\ authPc' = "done"
  /\ authResult' = v
  /\ IF ~IsAuthorized(v)
     THEN /\ response' = jsonResponse("Unauthorized", 401)
          /\ UNCHANGED readerVars
          /\ UNCHANGED <<dir, dirExists, calls, readable, request, fsReads, innerCalls>>
     ELSE /\ innerCalls' = innerCalls + 1
          /\ GET(request)
  /\ UNCHANGED <<loggerVars, libraryVars>>

\* authCheck has thrown, or its promise is rejected: the catch answers 500
AuthCheckFails(how) ==
  /\ authPc = "checking"
  /\ authPc' = "done"
  /\ authResult' = how
  /\ response' = jsonResponse("Internal Server Error", 500)
  /\ UNCHANGED readerVars
  /\ UNCHANGED <<dir, dirExists, calls, readable, request, fsReads, innerCalls>>
  /\ UNCHANGED <<loggerVars, libraryVars>>

\* the response of the wrapped handler has gone out
WrappedResponds ==
  /\ authPc = "done"
  /\ authPc' = "idle"
  /\ authResult' = "none"
  /\ innerCalls' = 0
  /\ pc' = "idle"
  /\ options' = <<>>
  /\ parsed' = <<>>
  /\ filtered' = <<>>
  /\ capped' = <<>>
  /\ sorted' = <<>>
  /\ result' = NoResult
  /\ request' = NoRequest
  /\ response' = NoResponse
  /\ fsReads' = {}
  /\ UNCHANGED <<file, exists, config, dir, dirExists, calls, readable>>
  /\ UNCHANGED <<loggerVars, libraryVars>>

\* the requests of the specification of the wrapper
AuthRequestChoices ==
  { [action |-> a, params |-> NotGiven] : a \in {"dates", "packages", "logs"} }
  \cup { [action |-> "logs", params |-> "level" :> L_error] }

WriteAuthEntry == \E info \in ApiEntries : WriteEntry(info, MaxApiLines)

CallWrapped == \E req \in AuthRequestChoices : WrappedGET(req)

AuthCheckSettles ==
  \/ \E v \in FalsyValues \cup TruthyValues : AuthCheckReturns(v)
  \/ \E how \in FailureChoices : AuthCheckFails(how)

InitAuth == \E cfg \in ApiConfigChoices : InitWith(cfg)

NextAuth == WriteAuthEntry \/ CallWrapped \/ AuthCheckSettles \/ WrappedResponds

SpecAuth == InitAuth /\ [][NextAuth]_vars

----------------------------------------------------------------------------
(* The HazoLogger singleton *)

\* the most instances that are constructed
MaxInstances == 3

\* the most promises getInstanceAsync creates
MaxPromises == 2

\* the most calls of reset()
MaxResets == 1

\* everything but the state of the singleton
outsideLoggerVars ==
  <<readerVars, dir, dirExists, calls, apiVars, authVars, libraryVars>>

\* who asks for the instance: a caller of getInstanceAsync, the constructor
\* of a PackageLogger, a caller of the synchronous getInstance
AsyncCallerKinds == {"getInstanceAsync", "PackageLogger p", "PackageLogger q"}

\* an instance handed to a caller: who asked, how many resets had been
\* called when it asked and when it got the instance, and the instance
Handed(kind, callEpoch, inst) ==
  [kind |-> kind, callEpoch |-> callEpoch, returnEpoch |-> epoch, instance |-> inst]

\* loadDependencies() up to the promise it returns: nothing to do when the
\* modules are loaded or are being loaded, else the imports are started
loadDependencies ==
  IF dependenciesLoaded THEN loadPromise
  ELSE IF loadPromise # "null" THEN loadPromise
  ELSE "pending"

\* preloadHazoLogger(), the exported loadDependencies
PreloadHazoLogger ==
  /\ loadPromise' = loadDependencies
  /\ UNCHANGED <<dependenciesLoaded, instance, instancePromise, promises, waiting,
                 constructed, epoch, returned>>
  /\ UNCHANGED outsideLoggerVars

\* the imports are done: the async function behind loadPromise sets
\* dependenciesLoaded and its promise is fulfilled
ImportsResolve ==
  /\ loadPromise = "pending"
  /\ dependenciesLoaded' = TRUE
  /\ loadPromise' = "fulfilled"
  /\ UNCHANGED <<instance, instancePromise, promises, waiting, constructed, epoch,
                 returned>>
  /\ UNCHANGED outsideLoggerVars

\* getInstanceAsync(configPath) up to the promise it returns: the instance
\* when there is one, else the promise in progress when there is one, else a
\* new promise whose async function runs up to await loadDependencies()
getInstanceAsync(kind) ==
  /\ IF instance # 0
     THEN /\ returned' = returned \cup {Handed(kind, epoch, instance)}
          /\ UNCHANGED <<loadPromise, instancePromise, promises, waiting>>
     ELSE IF instancePromise # 0
     THEN /\ waiting' = waiting \cup
                          {[kind |-> kind, callEpoch |-> epoch, promise |-> instancePromise]}
          /\ UNCHANGED <<loadPromise, instancePromise, promises, returned>>
     ELSE /\ Len(promises) < MaxPromises
          /\ promises' = Append(promises, "pending")
          /\ instancePromise' = Len(promises) + 1
          /\ waiting' = waiting \cup
                          {[kind |-> kind, callEpoch |-> epoch, promise |-> Len(promises) + 1]}
          /\ loadPromise' = loadDependencies
          /\ UNCHANGED returned
  /\ UNCHANGED <<dependenciesLoaded, instance, constructed, epoch>>
  /\ UNCHANGED outsideLoggerVars

\* the async function of a promise of getInstanceAsync goes on after its
\* await: HazoLogger.instance = new HazoLogger(configPath), and the promise
\* is fulfilled with it for all who wait
ContinueAfterLoad(p) ==
  /\ promises[p] = "pending"
  /\ dependenciesLoaded
  /\ constructed < MaxInstances
  /\ constructed' = constructed + 1
  /\ instance' = constructed + 1
  /\ promises' = [promises EXCEPT ![p] = "fulfilled"]
  /\ returned' = returned \cup
                   {Handed(w.kind, w.callEpoch, constructed + 1) :
                      w \in {x \in waiting : x.promise = p}}
  /\ waiting' = {x \in waiting : x.promise # p}
  /\ UNCHANGED <<dependenciesLoaded, loadPromise, instancePromise, epoch>>
  /\ UNCHANGED outsideLoggerVars

\* getInstance(configPath): the instance when there is one; an Error when
\* the modules are not loaded; else a new instance
getInstance ==
  /\ IF instance # 0
     THEN /\ returned' = returned \cup {Handed("getInstance", epoch, instance)}
          /\ UNCHANGED <<instance, constructed>>
     ELSE IF ~dependenciesLoaded
     THEN UNCHANGED <<instance, constructed, returned>>
     ELSE /\ constructed < MaxInstances
          /\ constructed' = constructed + 1
          /\ instance' = constructed + 1
          /\ returned' = returned \cup {Handed("getInstance", epoch, constructed + 1)}
  /\ UNCHANGED <<dependenciesLoaded, loadPromise, instancePromise, promises, waiting,
                 epoch>>
  /\ UNCHANGED outsideLoggerVars

\* reset(): the instance and the promise are dropped when there is an instance
reset ==
  /\ epoch < MaxResets
  /\ epoch' = epoch + 1
  /\ IF instance # 0
     THEN instance' = 0 /\ instancePromise' = 0
     ELSE UNCHANGED <<instance, instancePromise>>
  /\ UNCHANGED <<dependenciesLoaded, loadPromise, promises, waiting, constructed,
                 returned>>
  /\ UNCHANGED outsideLoggerVars

CallGetInstanceAsync == getInstanceAsync("getInstanceAsync")

\* new PackageLogger(options) without a core logger, for one package or another
ConstructPackageLogger ==
  \E kind \in AsyncCallerKinds \ {"getInstanceAsync"} : getInstanceAsync(kind)

ContinueAnyAfterLoad == \E p \in 1..Len(promises) : ContinueAfterLoad(p)

InitLogger == InitWith(DEFAULT_CONFIG)

\* the calls of getInstanceAsync and getInstance and the steps they wait for
NextSingleton ==
  \/ PreloadHazoLogger
  \/ ImportsResolve
  \/ CallGetInstanceAsync
  \/ ContinueAnyAfterLoad
  \/ getInstance

\* these calls and the construction of PackageLoggers, with no reset()
NextLoggerNoReset == NextSingleton \/ ConstructPackageLogger

SpecLoggerNoReset == InitLogger /\ [][NextLoggerNoReset]_vars

\* these calls and reset()
NextLogger == NextSingleton \/ reset

SpecLogger == InitLogger /\ [][NextLogger]_vars

----------------------------------------------------------------------------
(* The log context: log-context.ts *)

\* how many callbacks of run() are in progress, running or waiting at an
\* await, and the deepest context a callback is called in
MaxCallbacks == 2

\* everything but the state of the log context
outsideContextVars ==
  <<readerVars, dir, dirExists, calls, apiVars, authVars, loggerVars, configFileVars,
    streamVars,
    packageVars,
    clientVars>>

\* getStore() outside every run(): undefined
NoStore == <<>>

\* a process with async_hooks, a browser (typeof window !== 'undefined'),
\* and a process where require('async_hooks') throws
Environments == {"server", "browser", "no_async_hooks"}

RunKinds == {"runWithLogContext", "runWithLogContextAsync"}
SessionKinds == {"startSession", "startSessionAsync"}
AsyncKinds == {"runWithLogContextAsync", "startSessionAsync"}

\* ensureInitialized(): the storage in use once it has run
StorageAfterInit ==
  IF ~initialized /\ environment = "server"
  THEN "AsyncLocalStorage"
  ELSE logContextStorage

\* logContextStorage.getStore(): the stub answers undefined
getStore(storage) ==
  IF storage = "AsyncLocalStorage" THEN store ELSE NoStore

\* parentContext?.depth ?? 0
ParentDepthIgnored(parentContext) == 0

\* parentContext?.depth ?? 0
ParentDepth(parentContext) ==
  IF "depth" \in DOMAIN parentContext THEN parentContext["depth"] ELSE 0

\* context.k ?? parentContext?.k as the property k of the new context; a
\* property that is undefined is left out
Inherit(context, parentContext, k) ==
  IF k \in DOMAIN context THEN k :> context[k]
  ELSE IF k \in DOMAIN parentContext THEN k :> parentContext[k]
  ELSE <<>>

\* the newContext of runWithLogContext and runWithLogContextAsync
NewContext(context, parentContext) ==
  Inherit(context, parentContext, "sessionId")
    @@ Inherit(context, parentContext, "reference")
    @@ ("depth" :> ParentDepth(parentContext) + 1)

\* the store of startSession and startSessionAsync
SessionContext(sessionId, opts) ==
  ("sessionId" :> sessionId)
    @@ (IF "reference" \in DOMAIN opts THEN "reference" :> opts["reference"] ELSE <<>>)
    @@ ("depth" :> 1)

\* logContextStorage.run(newStore, fn) up to the first step of fn: the
\* AsyncLocalStorage makes newStore the store and keeps the one to go back
\* to, the stub calls fn and nothing else
Run(kind, passed, storage, newStore) ==
  /\ Len(frames) + Cardinality(suspended) < MaxCallbacks
  /\ ParentDepth(store) < MaxCallbacks
  /\ initialized' = TRUE
  /\ logContextStorage' = storage
  /\ store' = IF storage = "AsyncLocalStorage" THEN newStore ELSE store
  /\ frames' = Append(frames, [kind |-> kind,
                               passed |-> passed,
                               enclosing |-> getStore(storage),
                               previous |-> store,
                               own |-> store',
                               resumed |-> FALSE])
  /\ UNCHANGED <<environment, suspended>>

\* runWithLogContext(context, fn) and runWithLogContextAsync(context, fn)
runWithLogContext(kind, context) ==
  LET storage == StorageAfterInit
      parentContext == getStore(storage)
  IN  Run(kind, context, storage, NewContext(context, parentContext))

\* startSession(options, fn) and startSessionAsync(options, fn), options
\* without a logger; sessionId is what generateSessionId() returned
startSession(kind, opts, sessionId) ==
  Run(kind, opts, StorageAfterInit, SessionContext(sessionId, opts))

\* getLogContext(): the value it returns is getStore(StorageAfterInit)
getLogContext ==
  /\ initialized' = TRUE
  /\ logContextStorage' = StorageAfterInit
  /\ UNCHANGED <<environment, store, frames, suspended>>
  /\ UNCHANGED outsideContextVars

\* the innermost callback returns, or an async one has settled: run() puts
\* the store back
CallbackReturns ==
  /\ frames # <<>>
  /\ LET f == frames[Len(frames)]
     IN  /\ frames' = SubSeq(frames, 1, Len(frames) - 1)
         /\ store' = IF logContextStorage = "AsyncLocalStorage"
                     THEN f.previous ELSE store
  /\ UNCHANGED <<environment, initialized, logContextStorage, suspended>>
  /\ UNCHANGED outsideContextVars

\* the innermost callback is async and reaches an await: it returns its
\* promise, run() puts the store back, the rest of the callback waits for
\* the event loop, which has no store to go back to
CallbackAwaits ==
  /\ frames # <<>>
  /\ frames[Len(frames)].kind \in AsyncKinds
  /\ LET f == frames[Len(frames)]
     IN  /\ frames' = SubSeq(frames, 1, Len(frames) - 1)
         /\ suspended' = suspended \cup {[f EXCEPT !.resumed = TRUE,
                                                      !.previous = NoStore]}
         /\ store' = IF logContextStorage = "AsyncLocalStorage"
                     THEN f.previous ELSE store
  /\ UNCHANGED <<environment, initialized, logContextStorage>>
  /\ UNCHANGED outsideContextVars

\* the event loop runs the rest of a callback that waited: the
\* AsyncLocalStorage gives it the store it had when it reached the await
Resume(f) ==
  /\ frames = <<>>
  /\ f \in suspended
  /\ suspended' = suspended \ {f}
  /\ frames' = <<f>>
  /\ store' = IF logContextStorage = "AsyncLocalStorage" THEN f.own ELSE store
  /\ UNCHANGED <<environment, initialized, logContextStorage>>
  /\ UNCHANGED outsideContextVars

\* the contexts callers pass: with and without a session and a reference,
\* with an empty session id and a depth of their own
ContextChoices ==
  { <<>>,
    "reference" :> "u1",
    ("sessionId" :> "") @@ ("depth" :> 7) }

SessionOptionChoices == { <<>>, "reference" :> "u3" }

\* what generateSessionId() returns
GeneratedSessionIds == {"2025-12-17-14:30:45-1234"}

EnterContext ==
  \E kind \in RunKinds, context \in ContextChoices :
    runWithLogContext(kind, context) /\ UNCHANGED outsideContextVars

EnterSession ==
  \E kind \in SessionKinds, opts \in SessionOptionChoices,
     sessionId \in GeneratedSessionIds :
    startSession(kind, opts, sessionId) /\ UNCHANGED outsideContextVars

ResumeAny == \E f \in suspended : Resume(f)

InitContext == \E env \in Environments : InitIn(DEFAULT_CONFIG, env)

NextContext ==
  \/ EnterContext
  \/ EnterSession
  \/ getLogContext
  \/ CallbackReturns
  \/ CallbackAwaits
  \/ ResumeAny

SpecContext == InitContext /\ [][NextContext]_vars

----------------------------------------------------------------------------
(* The configuration loader: config_loader.ts *)

\* how many keys the section [hazo_logs] of the file sets
MaxConfigKeys == 2

\* everything but the configuration file and the configuration
outsideConfigVars ==
  <<file, exists, pc, options, parsed, filtered, capped, sorted, result,
    dir, dirExists, calls, apiVars, authVars, loggerVars, contextVars,
    streamVars,
    packageVars,
    clientVars>>

NoConfigFile == [exists |-> FALSE, readable |-> TRUE, section |-> <<>>]

\* what ini.parse gives for the value of a key: a string, or a boolean for
\* the words true and false and for a key that stands alone
Str(s) == [type |-> "string", s |-> s, b |-> FALSE]
Bool(b) == [type |-> "boolean", s |-> <<>>, b |-> b]

StringKeys == {"log_directory", "max_file_size", "max_files", "date_pattern"}
BooleanKeys == {"enable_console", "enable_file", "enable_log_viewer"}
NumberKeys == {"log_viewer_page_size", "log_viewer_max_results"}
ConfigKeys == StringKeys \cup BooleanKeys \cup NumberKeys \cup {"log_level"}

\* const validLevels = ['error', 'warn', 'info', 'debug']
validLevels == <<L_error, L_warn, L_info, L_debug>>

\* logsSection.k || DEFAULT_CONFIG.k for a key whose value is a string
StringOrDefault(section, k) ==
  IF k \in DOMAIN section /\ section[k].s # <<>>
  THEN section[k].s
  ELSE DEFAULT_CONFIG[k]

\* validateLogLevel(logsSection.log_level)
validateLogLevel(section) ==
  IF /\ "log_level" \in DOMAIN section
     /\ section["log_level"].type = "string"
     /\ includes(validLevels, section["log_level"].s)
  THEN section["log_level"].s
  ELSE DEFAULT_CONFIG["log_level"]

\* parseBool(logsSection.k, DEFAULT_CONFIG.k)
parseBool(section, k) ==
  IF k \notin DOMAIN section THEN DEFAULT_CONFIG[k]
  ELSE IF section[k].type = "boolean" THEN section[k].b
  ELSE LET strValue == toLowerCase(section[k].s)
       IN  strValue = <<"t", "r", "u", "e">> \/ strValue = <<"1">>

\* String(value) as parseInt sees a value that is no string
StringOf(raw) ==
  IF raw.type = "string" THEN raw.s
  ELSE IF raw.b THEN <<"t", "r", "u", "e">> ELSE <<"f", "a", "l", "s", "e">>

\* parseInt(logsSection.k, 10) || DEFAULT_CONFIG.k
NumberOrDefault(section, k) ==
  LET n == IF k \in DOMAIN section
           THEN parseInt(StringOf(section[k]))
           ELSE [nan |-> TRUE, n |-> 0]
  IN  IF n.nan \/ n.n = 0 THEN DEFAULT_CONFIG[k] ELSE n.n

\* loadConfig(): the defaults when the file is not found and when reading
\* it throws, else the object built from the section
loadConfig(f) ==
  IF ~f.exists \/ ~f.readable THEN DEFAULT_CONFIG
  ELSE [k \in ConfigKeys |->
          CASE k \in StringKeys -> StringOrDefault(f.section, k)
            [] k = "log_level" -> validateLogLevel(f.section)
            [] k \in BooleanKeys -> parseBool(f.section, k)
            [] k \in NumberKeys -> NumberOrDefault(f.section, k)]

\* loadConfig() on the file as it is
LoadConfig ==
  /\ ~configLoaded
  /\ config' = loadConfig(iniFile)
  /\ configLoaded' = TRUE
  /\ UNCHANGED iniFile
  /\ UNCHANGED outsideConfigVars

\* the caller has taken the configuration; the next call starts afresh
ForgetConfig ==
  /\ configLoaded
  /\ config' = DEFAULT_CONFIG
  /\ configLoaded' = FALSE
  /\ UNCHANGED iniFile
  /\ UNCHANGED outsideConfigVars

\* somebody writes key = value into the section [hazo_logs] of the file
WriteConfigKey(k, raw) ==
  /\ ~configLoaded
  /\ \/ k \in DOMAIN iniFile.section
     \/ Cardinality(DOMAIN iniFile.section) < MaxConfigKeys
  /\ iniFile' = [exists |-> TRUE,
                 readable |-> iniFile.readable,
                 section |-> (k :> raw) @@ iniFile.section]
  /\ UNCHANGED <<config, configLoaded>>
  /\ UNCHANGED outsideConfigVars

RemoveConfigFile ==
  /\ ~configLoaded
  /\ iniFile.exists
  /\ iniFile' = NoConfigFile
  /\ UNCHANGED <<config, configLoaded>>
  /\ UNCHANGED outsideConfigVars

\* the file becomes unreadable, or readable again: readFileSync throws or not
ChangeConfigPermissions ==
  /\ ~configLoaded
  /\ iniFile.exists
  /\ iniFile' = [iniFile EXCEPT !.readable = ~iniFile.readable]
  /\ UNCHANGED <<config, configLoaded>>
  /\ UNCHANGED outsideConfigVars

\* the values a file gives a key: right ones, ones that are no value of the
\* key, and none after the equals sign
RawChoices(k) ==
  CASE k \in StringKeys -> {Str(<<"x">>), Str(<<>>)}
    [] k = "log_level" ->
         {Str(L_debug), Str(L_error), Str(<<"v", "e", "r", "b", "o", "s", "e">>),
          Str(<<"I", "N", "F", "O">>), Str(<<>>), Bool(TRUE)}
    [] k \in BooleanKeys ->
         {Bool(TRUE), Bool(FALSE), Str(<<"1">>), Str(<<"0">>),
          Str(<<"T", "R", "U", "E">>), Str(<<"y", "e", "s">>), Str(<<>>)}
    [] k \in NumberKeys ->
         {Str(<<"1">>), Str(<<"2", "5">>), Str(<<"a", "b", "c">>), Str(<<"0">>),
          Str(<<"-", "5">>), Str(<<"2", "x">>), Str(<<>>), Bool(TRUE)}

WriteAnyConfigKey ==
  \E k \in ConfigKeys : \E raw \in RawChoices(k) : WriteConfigKey(k, raw)

InitConfig == InitWith(DEFAULT_CONFIG)

NextConfig ==
  \/ WriteAnyConfigKey
  \/ RemoveConfigFile
  \/ ChangeConfigPermissions
  \/ LoadConfig
  \/ ForgetConfig

SpecConfig == InitConfig /\ [][NextConfig]_vars

----------------------------------------------------------------------------
(* The page size of the configuration *)

\* log_viewer_page_size = ... is written into the configuration file
WritePageSizeKey ==
  /\ pc = "idle"
  /\ \E raw \in RawChoices("log_viewer_page_size") :
       WriteConfigKey("log_viewer_page_size", raw)

\* readLogs and GET begin with loadConfig()
LoadConfigForQuery == pc = "idle" /\ LoadConfig

ForgetConfigAfterQuery == pc = "idle" /\ ForgetConfig

\* the options of direct calls and the query strings of requests, with and
\* without a page size of their own
PageSizeOptionChoices == {NotGiven, "page" :> 2, "pageSize" :> 1}

PageSizeParamChoices == {NotGiven, "page" :> <<"2">>, "pageSize" :> <<"1">>}

WritePageSizeEntry ==
  /\ ~configLoaded
  /\ \E info \in ApiEntries : WriteEntry(info, MaxApiLines)

\* a direct call of readLogs
QueryDirect ==
  /\ configLoaded
  /\ \E opts \in PageSizeOptionChoices : ReadLogs(opts) /\ UNCHANGED auxVars

\* a request for logs served by the API handler
ServeLogRequest ==
  /\ configLoaded
  /\ \E p \in PageSizeParamChoices :
       GET([action |-> "logs", params |-> p]) /\ UNCHANGED aroundApiVars

InitPageSize == InitWith(DEFAULT_CONFIG)

NextPageSize ==
  \/ WritePageSizeKey
  \/ WritePageSizeEntry
  \/ LoadConfigForQuery
  \/ QueryDirect
  \/ ServeLogRequest
  \/ Respond
  \/ ForgetConfigAfterQuery

SpecPageSize == InitPageSize /\ [][NextPageSize]_vars

----------------------------------------------------------------------------
(* Queries with a cap and a sort key *)

\* the longest day file of the cap specification
MaxCapLines == 3

\* entries whose order in the file, by timestamp and by level differ
CapEntries ==
  { LogEntry(<<"1">>, L_warn, <<"p">>, <<"a">>, <<"f">>, <<"1">>, <<>>, <<>>),
    LogEntry(<<"2">>, L_debug, <<"p">>, <<"b">>, <<"f">>, <<"1">>, <<>>, <<>>),
    LogEntry(<<"3">>, L_error, <<"q">>, <<"c">>, <<"f">>, <<"1">>, <<>>, <<>>) }

\* the configurations of the cap specification: a cap of one or two records,
\* or the default
CapConfigChoices ==
  { [DEFAULT_CONFIG EXCEPT !.log_viewer_max_results = m] :
      m \in {1, 2, DEFAULT_MAX_RESULTS} }

\* the options of a call: a package filter or none, a sort key and a
\* direction or none, the first or the second page, one record a page or
\* the default
CapOptionChoices ==
  { l @@ k @@ o @@ n @@ z :
      l \in {NotGiven, "package" :> <<<<"p">>>>},
      k \in {NotGiven, "sortBy" :> "level"},
      o \in {NotGiven, "sortOrder" :> "asc"},
      n \in {NotGiven, "page" :> 2},
      z \in {NotGiven, "pageSize" :> 1} }

WriteCapEntry == \E info \in CapEntries : WriteEntry(info, MaxCapLines)

QueryCapped == \E opts \in CapOptionChoices : ReadLogs(opts) /\ UNCHANGED auxVars

InitCap == \E cfg \in CapConfigChoices : InitWith(cfg)

NextCap == WriteCapEntry \/ QueryCapped \/ Return

SpecCap == InitCap /\ [][NextCap]_vars

----------------------------------------------------------------------------
(* Queries on arbitrary file contents *)

MaxMalformedLines == 2

\* lines a readable day file can hold: those of ParseLineChoices and the
\* JSON literal null
MalformedLineChoices == ParseLineChoices \cup {<<Scalar(<<"n", "u", "l", "l">>)>>}

\* readLogs options on such a file: none, a filter, a search, a sort key, a page
MalformedOptionChoices ==
  { NotGiven,
    "level" :> <<L_error>>,
    "search" :> <<"a">>,
    "sortBy" :> "level",
    ("sortBy" :> "package") @@ ("sortOrder" :> "asc"),
    ("page" :> 2) @@ ("pageSize" :> 1) }

WriteMalformedLine == \E line \in MalformedLineChoices : AppendLine(line, MaxMalformedLines)

QueryMalformed == \E opts \in MalformedOptionChoices : ReadLogs(opts) /\ UNCHANGED auxVars

InitMalformed == InitWith(DEFAULT_CONFIG)

NextMalformed == WriteMalformedLine \/ QueryMalformed \/ QueryUnique \/ Return

SpecMalformed == InitMalformed /\ [][NextMalformed]_vars

----------------------------------------------------------------------------
(* A day's file that is read while it is written *)

MaxStreamLines == 2

\* everything but the reader, the directory and the write and the read in
\* progress
besideStreamVars ==
  <<calls, apiVars, authVars, loggerVars, contextVars, configFileVars,
    packageVars,
    clientVars>>

outsideStreamVars == <<dir, dirExists, besideStreamVars>>

StreamClosed == [open |-> FALSE, lines |-> <<>>]

\* entries the writer appends
StreamEntries ==
  { LogEntry(<<"1">>, L_info, <<"p">>, <<"a">>, <<"f">>, <<"1">>, <<>>, <<>>),
    LogEntry(<<"2">>, L_error, <<"q">>, <<"b">>, <<"f">>, <<"1">>, <<"s", "1">>, <<>>) }

\* how many tokens of a line are in the file after the first part of a write
CutPoints(text) == {0, 1, 2, 4, Len(text) - 1, Len(text)}

\* the first part of a line: its first k tokens, and the beginning of the
\* next token when the write ends inside one
PartOf(text, k, inToken) ==
  SubSeq(text, 1, k) \o (IF inToken /\ k < Len(text) THEN <<JUNK>> ELSE <<>>)

\* the file transport writes a line and its newline; the file holds the
\* first part of it before it holds the rest
BeginWrite(info, k, inToken) ==
  /\ pc = "idle"
  /\ inFlight = <<>>
  /\ Len(file) < MaxStreamLines
  /\ file' = Append(file, PartOf(orderedJsonFormat(info), k, inToken))
  /\ inFlight' = orderedJsonFormat(info)
  /\ writerSequence' = Append(writerSequence, info)
  /\ exists' = TRUE
  /\ dirExists' = TRUE
  /\ dir' = WithFile(dir, LogFileName(Today))
  /\ UNCHANGED <<config, pc, options, parsed, filtered, capped, sorted, result>>
  /\ UNCHANGED besideStreamVars
  /\ UNCHANGED streamed

\* the rest of the line and its newline are in the file
FinishWrite ==
  /\ pc = "idle"
  /\ inFlight # <<>>
  /\ file' = [file EXCEPT ![Len(file)] = inFlight]
  /\ inFlight' = <<>>
  /\ UNCHANGED <<exists, config, pc, options, parsed, filtered, capped, sorted, result>>
  /\ UNCHANGED outsideStreamVars
  /\ UNCHANGED <<writerSequence, streamed>>

\* parseLogFile: fs.createReadStream(filePath) of the file readLogs found
OpenStream ==
  /\ pc = "idle"
  /\ exists
  /\ ~streamed.open
  /\ streamed' = [open |-> TRUE, lines |-> <<>>]
  /\ UNCHANGED readerVars
  /\ UNCHANGED outsideStreamVars
  /\ UNCHANGED <<inFlight, writerSequence>>

\* the stream reads on from where it is: it delivers what the file holds
\* now, up to some line, the last of them as far as it is written
ReadChunk(n) ==
  /\ pc = "idle"
  /\ streamed.open
  /\ n \in 1..Len(file)
  /\ n >= Len(streamed.lines)
  /\ SubSeq(file, 1, n) # streamed.lines
  /\ streamed' = [streamed EXCEPT !.lines = SubSeq(file, 1, n)]
  /\ UNCHANGED readerVars
  /\ UNCHANGED outsideStreamVars
  /\ UNCHANGED <<inFlight, writerSequence>>

\* a read finds nothing more: the stream ends, readline hands over the last
\* line, and readLogs goes on with the records of the lines delivered
EndOfStream(opts) ==
  /\ streamed.open
  /\ streamed.lines = file
  /\ ReadLogs(opts)
  /\ streamed' = StreamClosed
  /\ UNCHANGED outsideStreamVars
  /\ UNCHANGED <<inFlight, writerSequence>>

\* readLogs options of a reader
StreamOptionChoices == {NotGiven, "sortBy" :> "level", "level" :> <<L_error>>}

WriteBegins ==
  \E info \in StreamEntries : \E k \in CutPoints(orderedJsonFormat(info)) :
    \E inToken \in BOOLEAN : BeginWrite(info, k, inToken)

StreamDelivers == \E n \in 1..MaxStreamLines : ReadChunk(n)

StreamEnds == \E opts \in StreamOptionChoices : EndOfStream(opts)

InitStream == InitWith(DEFAULT_CONFIG)

NextStream ==
  WriteBegins \/ FinishWrite \/ OpenStream \/ StreamDelivers \/ StreamEnds \/ Return

SpecStream == InitStream /\ [][NextStream]_vars

----------------------------------------------------------------------------
(* The package logger: package_logger.ts *)

MaxLogCalls == 3

\* everything but the state of the PackageLogger
outsidePackageVars ==
  <<readerVars, dir, dirExists, calls, apiVars, authVars, loggerVars, contextVars,
    configFileVars, streamVars,
    clientVars>>

\* this.coreLogger = null
NoCoreLogger == [constructed |-> FALSE, executionId |-> <<>>]

\* the execution ids generateExecutionId gives a core logger
ExecutionIds == {<<"x", "1">>, <<"x", "2">>}

\* the levels of the four log methods
LogMethods == {L_error, L_warn, L_info, L_debug}

\* logEntry.executionId = logger.getExecutionId(), left undone
StampNothing(logEntry, logger) == logEntry

\* logEntry.executionId = logger.getExecutionId()
Stamp(logEntry, logger) == [logEntry EXCEPT !.executionId = logger.executionId]

\* logger.log(logEntry): the entry the core logger gets, and the id of that
\* logger
Logged(logEntry, logger) ==
  [call |-> logEntry.call, level |-> logEntry.level,
   executionId |-> logEntry.executionId, by |-> logger.executionId,
   wasQueued |-> logEntry.wasQueued]

\* createLogger(packageName): the constructor without a core logger calls
\* HazoLogger.getInstanceAsync() and chains the callback that sets coreLogger
createLogger ==
  /\ coreLoggerPromise = "null"
  /\ coreLoggerPromise' = "pending"
  /\ initPromise' = [state |-> "pending", logger |-> NoCoreLogger]
  /\ UNCHANGED <<coreLogger, queued, delivered, reported, logCalls>>
  /\ UNCHANGED outsidePackageVars

\* the promise of getInstanceAsync is fulfilled with the new core logger
InitFulfils(id) ==
  /\ initPromise.state = "pending"
  /\ initPromise' = [state |-> "fulfilled",
                     logger |-> [constructed |-> TRUE, executionId |-> id]]
  /\ UNCHANGED <<coreLogger, coreLoggerPromise, queued, delivered, reported, logCalls>>
  /\ UNCHANGED outsidePackageVars

\* the promise of getInstanceAsync is rejected: loadDependencies or the
\* constructor of HazoLogger has thrown
InitRejects ==
  /\ initPromise.state = "pending"
  /\ initPromise' = [initPromise EXCEPT !.state = "rejected"]
  /\ UNCHANGED <<coreLogger, coreLoggerPromise, queued, delivered, reported, logCalls>>
  /\ UNCHANGED outsidePackageVars

\* the callback of the constructor runs: this.coreLogger = logger, and
\* coreLoggerPromise is fulfilled with the logger; a rejection passes the
\* callback by and rejects coreLoggerPromise
PromiseSettles ==
  /\ coreLoggerPromise = "pending"
  /\ initPromise.state \in {"fulfilled", "rejected"}
  /\ coreLoggerPromise' = initPromise.state
  /\ coreLogger' = IF initPromise.state = "fulfilled" THEN initPromise.logger
                   ELSE coreLogger
  /\ UNCHANGED <<initPromise, queued, delivered, reported, logCalls>>
  /\ UNCHANGED outsidePackageVars

\* log(level, message, data): with a core logger the entry is stamped and
\* logged at once; without one, getCoreLogger() returns coreLoggerPromise
\* and the entry waits for the callback chained to it
PackageLoggerLog(level) ==
  /\ coreLoggerPromise # "null"
  /\ logCalls < MaxLogCalls
  /\ logCalls' = logCalls + 1
  /\ LET logEntry == [call |-> logCalls + 1, level |-> level, executionId |-> <<>>,
                      wasQueued |-> ~coreLogger.constructed]
     IN  IF coreLogger.constructed
         THEN /\ delivered' = Append(delivered, Logged(Stamp(logEntry, coreLogger), coreLogger))
              /\ UNCHANGED queued
         ELSE /\ queued' = Append(queued, logEntry)
              /\ UNCHANGED delivered
  /\ UNCHANGED <<coreLogger, coreLoggerPromise, initPromise, reported>>
  /\ UNCHANGED outsidePackageVars

\* the then-callback of the oldest waiting entry runs with the logger that
\* coreLoggerPromise was fulfilled with
ThenCallback ==
  /\ coreLoggerPromise = "fulfilled"
  /\ queued # <<>>
  /\ delivered' = Append(delivered, Logged(Stamp(Head(queued), coreLogger), coreLogger))
  /\ queued' = Tail(queued)
  /\ UNCHANGED <<coreLogger, coreLoggerPromise, initPromise, reported, logCalls>>
  /\ UNCHANGED outsidePackageVars

\* the catch-callback of the oldest waiting entry runs: console.error
CatchCallback ==
  /\ coreLoggerPromise = "rejected"
  /\ queued # <<>>
  /\ reported' = Append(reported, Head(queued).call)
  /\ queued' = Tail(queued)
  /\ UNCHANGED <<coreLogger, coreLoggerPromise, initPromise, delivered, logCalls>>
  /\ UNCHANGED outsidePackageVars

InitSucceeds == \E id \in ExecutionIds : InitFulfils(id)

CallLogMethod == \E level \in LogMethods : PackageLoggerLog(level)

InitPackage == InitWith(DEFAULT_CONFIG)

NextPackage ==
  \/ createLogger
  \/ InitSucceeds
  \/ InitRejects
  \/ PromiseSettles
  \/ CallLogMethod
  \/ ThenCallback
  \/ CatchCallback

SpecPackage == InitPackage /\ [][NextPackage]_vars

\* the event loop runs every callback that is due, and the promise of
\* getInstanceAsync settles
SpecPackageFair ==
  /\ SpecPackage
  /\ WF_vars(InitSucceeds \/ InitRejects)
  /\ WF_vars(PromiseSettles)
  /\ WF_vars(ThenCallback)
  /\ WF_vars(CatchCallback)

----------------------------------------------------------------------------
(* The client logger with batchMode on: ui/client-logger.ts *)

MaxClientCalls == 3

MaxBeforeUnloads == 1

\* everything but the state of the client logger
outsideClientVars ==
  <<readerVars, dir, dirExists, calls, apiVars, authVars, loggerVars, contextVars,
    configFileVars, streamVars, packageVars>>

LOG_LEVEL_PRIORITY(level) ==
  CASE level = L_error -> 0
    [] level = L_warn -> 1
    [] level = L_info -> 2
    [] level = L_debug -> 3

\* shouldLog(level) of a logger with this minLevel
shouldLog(level, minLevel) == LOG_LEVEL_PRIORITY(level) <= LOG_LEVEL_PRIORITY(minLevel)

\* JSON.stringify({ logs: entries }) returns: no entry has data with a
\* cycle or a BigInt in it, on which it throws a TypeError
Serialisable(entries) ==
  \A i \in 1..Len(entries) : clientCalls[entries[i]].serialisable

\* sendLogs(entries) up to its await, for entries that are not empty: the
\* POST is made and awaited, or JSON.stringify throws in the try and the
\* catch swallows the error
sendLogs(entries, by) ==
  IF Serialisable(entries)
  THEN Append(posts, [body |-> entries, state |-> "inFlight", awaitedBy |-> by])
  ELSE posts

\* startBatchTimer() with batchMode on
startBatchTimer(timer) == IF timer = "null" THEN "set" ELSE timer

\* the timeouts after startBatchTimer()
TimersAfterStart(timer, n) == IF timer = "null" THEN n + 1 ELSE n

\* createClientLogger({ batchMode: true, minLevel })
createClientLogger(minLevel) ==
  /\ ~clientLogger.created
  /\ clientLogger' = [created |-> TRUE, minLevel |-> minLevel]
  /\ UNCHANGED <<clientCalls, logBatch, batchTimer, pendingTimers, timerCallback,
                 posts, beforeUnloads, unloaded>>
  /\ UNCHANGED outsideClientVars

\* log(level, message, data) with batchMode on
ClientLog(level, serialisable) ==
  /\ clientLogger.created
  /\ ~unloaded
  /\ Len(clientCalls) < MaxClientCalls
  /\ clientCalls' = Append(clientCalls, [level |-> level, serialisable |-> serialisable])
  /\ IF shouldLog(level, clientLogger.minLevel)
     THEN /\ logBatch' = Append(logBatch, Len(clientCalls) + 1)
          /\ batchTimer' = startBatchTimer(batchTimer)
          /\ pendingTimers' = TimersAfterStart(batchTimer, pendingTimers)
     ELSE UNCHANGED <<logBatch, batchTimer, pendingTimers>>
  /\ UNCHANGED <<clientLogger, timerCallback, posts, beforeUnloads, unloaded>>
  /\ UNCHANGED outsideClientVars

\* the timeout fires: its callback runs flushBatch() up to the await
TimerFires ==
  /\ ~unloaded
  /\ pendingTimers > 0
  /\ timerCallback = "idle"
  /\ pendingTimers' = pendingTimers - 1
  /\ logBatch' = <<>>
  /\ posts' = IF logBatch # <<>> THEN sendLogs(logBatch, "timer") ELSE posts
  /\ timerCallback' = IF logBatch # <<>> /\ Serialisable(logBatch)
                      THEN "awaiting" ELSE "resuming"
  /\ UNCHANGED <<clientLogger, clientCalls, batchTimer, beforeUnloads, unloaded>>
  /\ UNCHANGED outsideClientVars

\* flush(): flushBatch() up to the await
Flush ==
  /\ clientLogger.created
  /\ ~unloaded
  /\ logBatch' = <<>>
  /\ posts' = IF logBatch # <<>> THEN sendLogs(logBatch, "flush") ELSE posts
  /\ UNCHANGED <<clientLogger, clientCalls, batchTimer, pendingTimers, timerCallback,
                 beforeUnloads, unloaded>>
  /\ UNCHANGED outsideClientVars

\* the fetch of a POST settles, fulfilled or rejected: sendLogs returns
\* either way, and flushBatch after it
PostSettles(i) ==
  /\ ~unloaded
  /\ posts[i].state = "inFlight"
  /\ posts' = [posts EXCEPT ![i].state = "settled"]
  /\ timerCallback' = IF posts[i].awaitedBy = "timer" THEN "resuming" ELSE timerCallback
  /\ UNCHANGED <<clientLogger, clientCalls, logBatch, batchTimer, pendingTimers,
                 beforeUnloads, unloaded>>
  /\ UNCHANGED outsideClientVars

\* the callback of the timer goes on after await flushBatch()
TimerCallbackResumes ==
  /\ ~unloaded
  /\ timerCallback = "resuming"
  /\ timerCallback' = "idle"
  /\ batchTimer' = IF logBatch # <<>> THEN "set" ELSE "null"
  /\ pendingTimers' = IF logBatch # <<>> THEN pendingTimers + 1 ELSE pendingTimers
  /\ UNCHANGED <<clientLogger, clientCalls, logBatch, posts, beforeUnloads, unloaded>>
  /\ UNCHANGED outsideClientVars

\* the listener of beforeunload: navigator.sendBeacon with the entries that
\* wait, which stay in logBatch; JSON.stringify is outside every try. The
\* page is unloaded after it, or stays (the navigation is a download, or is
\* cancelled)
BeforeUnload(stays) ==
  /\ clientLogger.created
  /\ ~unloaded
  /\ beforeUnloads < MaxBeforeUnloads
  /\ beforeUnloads' = beforeUnloads + 1
  /\ posts' = IF logBatch # <<>> /\ Serialisable(logBatch)
              THEN Append(posts, [body |-> logBatch, state |-> "settled",
                                  awaitedBy |-> "beacon"])
              ELSE posts
  /\ unloaded' = ~stays
  /\ UNCHANGED <<clientLogger, clientCalls, logBatch, batchTimer, pendingTimers,
                 timerCallback>>
  /\ UNCHANGED outsideClientVars

\* the levels and the data of the calls
ClientLevelChoices == {L_error, L_info}

CreateAnyClientLogger == \E minLevel \in {L_debug, L_warn} : createClientLogger(minLevel)

CallClientLogMethod ==
  \E level \in ClientLevelChoices : \E serialisable \in BOOLEAN :
    ClientLog(level, serialisable)

AnyPostSettles == \E i \in 1..Len(posts) : PostSettles(i)

PageUnloads == \E stays \in BOOLEAN : BeforeUnload(stays)

InitClient == InitWith(DEFAULT_CONFIG)

NextClient ==
  \/ CreateAnyClientLogger
  \/ CallClientLogMethod
  \/ TimerFires
  \/ Flush
  \/ AnyPostSettles
  \/ TimerCallbackResumes
  \/ PageUnloads

SpecClient == InitClient /\ [][NextClient]_vars

\* a timeout that is set fires, a fetch settles, and the event loop runs the
\* callback that is due
SpecClientFair ==
  /\ SpecClient
  /\ WF_vars(TimerFires)
  /\ WF_vars(AnyPostSettles)
  /\ WF_vars(TimerCallbackResumes)

----------------------------------------------------------------------------
(* Queries for a page that is no page *)

MaxPageNumberLines == 3

\* the options of direct calls: a page that is 0, negative or 1, with a
\* page size or without
PageNumberOptionChoices ==
  { n @@ z :
      n \in {"page" :> x : x \in {0 - 2, 0 - 1, 0, 1}},
      z \in {NotGiven, "pageSize" :> 1, "pageSize" :> 2} }

\* the query strings of requests: a page that is 0, negative, no number or 1
PageNumberParamChoices ==
  { n @@ z :
      n \in {"page" :> <<"0">>, "page" :> <<"-", "1">>, "page" :> <<"a", "b", "c">>,
             "page" :> <<"1">>},
      z \in {NotGiven, "pageSize" :> <<"1">>} }

WritePageNumberEntry == \E info \in ApiEntries : WriteEntry(info, MaxPageNumberLines)

QueryPageNumber == \E opts \in PageNumberOptionChoices : ReadLogs(opts) /\ UNCHANGED auxVars

ServePageNumberRequest ==
  \E p \in PageNumberParamChoices :
    GET([action |-> "logs", params |-> p]) /\ UNCHANGED aroundApiVars

InitPageNumber == InitWith(DEFAULT_CONFIG)

NextPageNumber ==
  WritePageNumberEntry \/ QueryPageNumber \/ ServePageNumberRequest \/ Respond

SpecPageNumber == InitPageNumber /\ [][NextPageNumber]_vars

----------------------------------------------------------------------------
(* Properties of readLogs: cap and pages *)

\* the number of records of the day's file that match the filters of the call
MatchCount == Len(applyFilters(parseLogFile(file), options))

\* C1: for every readLogs query, total is the smaller of the number of
\* records of the day's file that match the filters and maxResults; so
\* total never exceeds maxResults and is maxResults when more records match
C1_TotalIsMinOfMatchesAndMaxResults ==
  pc = "done" =>
    /\ result.total = Min(MatchCount, MaxResultsOf(config))
    /\ result.total <= MaxResultsOf(config)
    /\ (MatchCount > MaxResultsOf(config) => result.total = MaxResultsOf(config))

\* more records match a given level filter than maxResults allows, and some
\* record of the file does not match
C1_Witness ==
  /\ pc = "done"
  /\ ListGiven(options, "level")
  /\ MatchCount > MaxResultsOf(config)
  /\ MatchCount < Len(parsed)
  /\ result.total = MaxResultsOf(config)

\* C2: for pageSize >= 1, totalPages is the ceiling of total / pageSize, the
\* least number of pages of pageSize records that hold total records, and it
\* is 0 exactly when total is 0, the missing file included
C2_TotalPagesIsCeiling ==
  (pc = "done" /\ result.pageSize >= 1) =>
    /\ result.totalPages >= 0
    /\ result.totalPages * result.pageSize >= result.total
    /\ (result.totalPages > 0 =>
          (result.totalPages - 1) * result.pageSize < result.total)
    /\ (result.totalPages = 0 <=> result.total = 0)
    /\ (~exists => result.totalPages = 0 /\ result.total = 0)

\* the last page is not full: total is no multiple of pageSize
C2_Witness ==
  /\ pc = "done"
  /\ result.pageSize >= 2
  /\ result.total > result.pageSize
  /\ result.total % result.pageSize # 0
  /\ result.totalPages = (result.total \div result.pageSize) + 1

RECURSIVE PagesUpTo(_)
\* pages 1..q of the sorted capped sequence, one after the other
PagesUpTo(q) ==
  IF q = 0 THEN <<>>
  ELSE PagesUpTo(q - 1) \o Paginate(sorted, q, result.pageSize)

\* C8: for page >= 1 and pageSize >= 1, the records returned are those at the
\* 0-based indices (page-1)*pageSize up to page*pageSize of the sorted capped
\* sequence, clamped to it: at most pageSize records, pages 1..totalPages
\* in a row are the whole sequence, a page beyond the end is empty
C8_PageIsSliceOfSorted ==
  (pc = "done" /\ result.page >= 1 /\ result.pageSize >= 1) =>
    LET start == (result.page - 1) * result.pageSize
        count == Max(0, Min(result.pageSize, Len(sorted) - start))
    IN  /\ result.logs = [i \in 1..count |-> sorted[start + i]]
        /\ Len(result.logs) <= result.pageSize
        /\ (result.page > result.totalPages => result.logs = <<>>)
        /\ PagesUpTo(result.totalPages) = sorted

\* the second page, which is the last and is not full
C8_Witness ==
  /\ pc = "done"
  /\ result.page = 2
  /\ result.pageSize = 2
  /\ Len(sorted) = 3
  /\ result.logs = <<sorted[3]>>
  /\ sorted[1] # sorted[3]

----------------------------------------------------------------------------
(* Properties of applyFilters *)

\* the options without one of them
Without(opts, k) == [x \in (DOMAIN opts) \ {k} |-> opts[x]]

ListDimensions == {"level", "package", "executionId", "sessionId", "reference"}

SearchedFields == {"message", "package", "filename", "sessionId", "reference"}

\* C3: with a non-empty sessionId (resp. reference) filter, no record
\* returned by readLogs lacks a sessionId (resp. reference), whatever the
\* other filters are
C3_RecordWithoutFieldNeverPassesItsFilter ==
  pc = "done" =>
    /\ ListGiven(options, "sessionId") =>
         \A i \in 1..Len(result.logs) : HasProp(result.logs[i], "sessionId")
    /\ ListGiven(options, "reference") =>
         \A i \in 1..Len(result.logs) : HasProp(result.logs[i], "reference")

\* a record without sessionId that passes every other filter of the call is
\* kept out by the sessionId filter, while another record is returned
C3_Witness ==
  /\ pc = "done"
  /\ ListGiven(options, "sessionId")
  /\ ListGiven(options, "level")
  /\ \E i \in 1..Len(parsed) :
       /\ ~HasProp(parsed[i], "sessionId")
       /\ applyFilters(<<parsed[i]>>, Without(options, "sessionId")) # <<>>
  /\ result.logs # <<>>

\* a dimension is present when its list is given and is not empty (the
\* search: when the text is not empty); the record matches one of the
\* requested values
MatchesDimension(log, dim) ==
  \E j \in 1..Len(options[dim]) : HasProp(log, dim) /\ log[dim] = options[dim][j]

\* the record holds the lower-cased search text in one of the searched fields
MatchesSearch(log) ==
  \E fld \in SearchedFields :
    /\ HasProp(log, fld)
    /\ includesStr(toLowerCase(log[fld]), toLowerCase(options["search"]))

MatchesEveryPresentDimension(log) ==
  /\ \A dim \in ListDimensions : ListGiven(options, dim) => MatchesDimension(log, dim)
  /\ Truthy(options, "search") => MatchesSearch(log)

\* C4: applyFilters keeps a record if and only if it matches, in every
\* dimension that is present (a non-empty list, a non-empty search text), at
\* least one of the requested values; with no filter every record passes
C4_FilterIsAndOfOrs ==
  (pc = "done" /\ exists) =>
    /\ filtered = SelectSeq(parsed, MatchesEveryPresentDimension)
    /\ (DOMAIN options = {} => filtered = parsed)

\* two dimensions are present, one with two requested values; a record that
\* matches one dimension and not the other is dropped, a record that matches
\* a requested value in both is kept
C4_Witness ==
  /\ pc = "done"
  /\ ListGiven(options, "level") /\ Len(options["level"]) = 2
  /\ ListGiven(options, "package")
  /\ \E i \in 1..Len(parsed) :
       /\ MatchesDimension(parsed[i], "level")
       /\ ~MatchesDimension(parsed[i], "package")
  /\ \E i \in 1..Len(filtered) : filtered[i]["level"] = options["level"][1]

\* C5: with a search text s, a record passes the search filter if and only
\* if the lower-cased s is a substring of the lower-cased message, package
\* or filename, or of the lower-cased sessionId or reference when the record
\* has one; the other records are dropped
C5_SearchIsCaseInsensitiveSubstring ==
  (pc = "done" /\ exists /\ HasProp(options, "search")) =>
    filtered = SelectSeq(applyFilters(parsed, Without(options, "search")),
                         MatchesSearch)

\* a record passes only because the case is ignored, through its sessionId,
\* and another record is dropped by the search
C5_Witness ==
  /\ pc = "done"
  /\ Truthy(options, "search")
  /\ DOMAIN options = {"search"}
  /\ Len(filtered) = 1
  /\ Len(parsed) = 2
  /\ HasProp(filtered[1], "sessionId")
  /\ includesStr(toLowerCase(filtered[1]["sessionId"]), toLowerCase(options["search"]))
  /\ ~includesStr(filtered[1]["sessionId"], options["search"])
  /\ ~includesStr(toLowerCase(filtered[1]["message"]), toLowerCase(options["search"]))

----------------------------------------------------------------------------
(* Properties of applySorting *)

\* the severity order of the specification: error, warn, info, debug
SeverityOrder == <<L_error, L_warn, L_info, L_debug>>

SeverityRank(level) == CHOOSE r \in 1..4 : SeverityOrder[r] = level

SortByIs(key) == HasProp(options, "sortBy") /\ options["sortBy"] = key

SortOrderIs(order) == HasProp(options, "sortOrder") /\ options["sortOrder"] = order

\* C6: sorted by level ascending, every error record precedes every warn
\* record, every warn every info, every info every debug: no record is
\* followed by one of a more severe level; descending is the reverse
C6_LevelSortIsBySeverity ==
  (pc = "done" /\ SortByIs("level")) =>
    /\ SortOrderIs("asc") =>
         \A i, j \in 1..Len(result.logs) :
           i < j => SeverityRank(result.logs[i]["level"])
                      <= SeverityRank(result.logs[j]["level"])
    /\ SortOrderIs("desc") =>
         \A i, j \in 1..Len(result.logs) :
           i < j => SeverityRank(result.logs[i]["level"])
                      >= SeverityRank(result.logs[j]["level"])

\* the file holds an info record before a warn record, whose names sort the
\* other way round, and the ascending sort returns warn first
C6_Witness ==
  /\ pc = "done"
  /\ SortByIs("level") /\ SortOrderIs("asc")
  /\ Len(capped) >= 2
  /\ capped[1]["level"] = L_info
  /\ capped[2]["level"] = L_warn
  /\ result.logs[1]["level"] = L_warn
  /\ result.logs[2]["level"] = L_info

\* the value a record is sorted by: the key of the call, the timestamp when
\* the key is not given or not supported, the empty string for a sessionId
\* or reference the record does not have
SortKeyValue(log) ==
  LET key == IF HasProp(options, "sortBy")
                  /\ options["sortBy"] \in {"level", "package", "executionId",
                                            "sessionId", "reference"}
             THEN options["sortBy"] ELSE "timestamp"
  IN  IF HasProp(log, key) THEN log[key] ELSE <<>>

\* the records of a sequence whose sort-key value is v, in their order
WithKeyValue(logs, v) ==
  LET hasValue(log) == SortKeyValue(log) = v
  IN  SelectSeq(logs, hasValue)

\* C7: for every sort key and both directions, the records with one and the
\* same sort-key value come out of the sort in the order they went in (the
\* file order after filter and cap)
C7_SortIsStable ==
  pc = "done" =>
    /\ Len(sorted) = Len(capped)
    /\ \A i \in 1..Len(capped) :
         WithKeyValue(sorted, SortKeyValue(capped[i]))
           = WithKeyValue(capped, SortKeyValue(capped[i]))

\* a descending sort moves a record to the front past two records that
\* differ and have the same key value, which keep their order
C7_Witness ==
  /\ pc = "done"
  /\ SortOrderIs("desc")
  /\ Len(capped) = 3
  /\ SortKeyValue(capped[1]) = SortKeyValue(capped[2])
  /\ capped[1] # capped[2]
  /\ sorted = <<capped[3], capped[1], capped[2]>>

----------------------------------------------------------------------------
(* Properties of parseLogFile *)

\* the lines of the file that are valid JSON, in file order
ValidJSONLines == SelectSeq(file, IsJSONText)

\* C9: a file of N lines that are valid JSON and M lines that are not, in
\* any order and with any number of blank lines, parses to exactly N
\* records, the values of the valid lines in file order
C9_ParseKeepsExactlyTheValidLines ==
  pc = "parsed" =>
    /\ Len(parsed) = Cardinality({i \in 1..Len(file) : IsJSONText(file[i])})
    /\ Len(parsed) = Len(ValidJSONLines)
    /\ \A i \in 1..Len(parsed) : parsed[i] = JSONValue(ValidJSONLines[i])

\* a line that is no JSON, then a blank line, then a written entry
C9_Witness ==
  /\ pc = "parsed"
  /\ Len(file) = 3
  /\ ~TrimIsEmpty(file[1]) /\ ~IsJSONText(file[1])
  /\ TrimIsEmpty(file[2])
  /\ IsJSONText(file[3])
  /\ parsed = <<SampleEntry>>

\* C10: every record parseLogFile accepts has timestamp, level, package,
\* message, filename, line and executionId; a line of JSON that lacks one of
\* them is dropped
C10_AcceptedRecordsHaveRequiredFields ==
  pc = "parsed" =>
    \A i \in 1..Len(parsed) : REQUIRED_FIELDS \subseteq DOMAIN parsed[i]

----------------------------------------------------------------------------
(* Properties of a missing file and of the metadata queries *)

\* the page a call asks for, 1 when it asks for none
RequestedPage == IF HasProp(options, "page") THEN options["page"] ELSE 1

\* the page size a call asks for, the configured one when it asks for none
RequestedPageSize ==
  IF HasProp(options, "pageSize") THEN options["pageSize"]
  ELSE config.log_viewer_page_size

\* C11: when the day's file does not exist, readLogs returns the empty
\* well-formed result (no records, total 0, totalPages 0) with the page and
\* the page size of the call, and each metadata query returns the empty list
C11_MissingFileGivesEmptyResult ==
  ~exists =>
    /\ pc = "done" =>
         result = [logs |-> <<>>, total |-> 0, totalPages |-> 0,
                   page |-> RequestedPage, pageSize |-> RequestedPageSize]
    /\ pc = "unique" => result = <<>>

\* readLogs has returned for a missing file, asked for page 2 of size 1
C11_Witness ==
  /\ ~exists
  /\ pc = "done"
  /\ HasProp(options, "page")
  /\ HasProp(options, "pageSize")
  /\ result.page = 2
  /\ result.pageSize = 1

\* s comes before t in the order of code units: at the first place where
\* they differ s has the smaller code unit, or s is a proper prefix of t
LexLess(s, t) ==
  \E k \in 1..(Len(t)) :
    /\ SubSeq(s, 1, k - 1) = SubSeq(t, 1, k - 1)
    /\ \/ k = Len(s) + 1
       \/ k <= Len(s) /\ CodeUnit(s[k]) < CodeUnit(t[k])

\* the values of a field over all records of the day's file that have it
FieldValues(field) ==
  LET logs == parseLogFile(file)
  IN  {logs[i][field] : i \in {j \in 1..Len(logs) : Truthy(logs[j], field)}}

\* C14: a metadata query returns exactly the values of its field over all
\* records of the file that have the field, each once, in ascending
\* lexicographic order, whatever the maximum of results is
C14_UniqueValuesAreTheSortedSetOfTheField ==
  pc = "unique" =>
    /\ {result[i] : i \in 1..Len(result)} = FieldValues(options["field"])
    /\ \A i, j \in 1..Len(result) : i < j => LexLess(result[i], result[j])

\* a query returned more values than the maximum of results, from a file in
\* which a value repeats and a record lacks the field, and the values
\* returned begin with a capital and a small letter
C14_Witness ==
  /\ pc = "unique"
  /\ Len(result) > config.log_viewer_max_results
  /\ Len(result) < Len(parsed)
  /\ \E i \in 1..Len(parsed) : ~HasProp(parsed[i], options["field"])
  /\ \E i, j \in 1..Len(result) :
       /\ LowerChar(result[i][1]) # result[i][1]
       /\ LowerChar(result[j][1]) = result[j][1]
       /\ CodeUnit(result[j][1]) > 64

----------------------------------------------------------------------------
(* Properties of getAvailableLogDates *)

\* d has the form YYYY-MM-DD
IsDateForm(d) ==
  /\ Len(d) = 10
  /\ \A i \in 1..10 : IF i \in {5, 8} THEN d[i] = "-" ELSE IsDigit(d[i])

\* the dates D for which the directory lists a file named hazo-D.log
ListedDates ==
  { d \in {SubSeq(dir[i], 6, Len(dir[i]) - 4) : i \in 1..Len(dir)} :
      /\ IsDateForm(d)
      /\ includes(dir, HazoPrefix \o d \o LogSuffix) }

\* C15: getAvailableLogDates returns exactly the dates D of the form
\* YYYY-MM-DD for which a file named hazo-D.log is listed in the directory,
\* most recent first; a directory that is empty or does not exist gives the
\* empty list
C15_DatesAreTheListedDayFilesDescending ==
  pc = "dates" =>
    /\ {result[i] : i \in 1..Len(result)} = ListedDates
    /\ \A i, j \in 1..Len(result) : i < j => LexLess(result[j], result[i])
    /\ (~dirExists \/ dir = <<>>) => result = <<>>

\* the dates of three day files were returned from a directory that lists
\* another file as well, the oldest day file listed first and the day's own
\* file holding no entry
C15_Witness ==
  /\ pc = "dates"
  /\ Len(result) = 3
  /\ Len(dir) > 3
  /\ dir[1] = LogFileName(result[3])
  /\ parseLogFile(file) = <<>>

----------------------------------------------------------------------------
(* Properties of repeated queries *)

\* two kept calls had the same arguments and met the same file and the same
\* configuration
SameCall(c, d) ==
  /\ c.options = d.options
  /\ c.file = d.file
  /\ c.exists = d.exists
  /\ c.config = d.config

----------------------------------------------------------------------------
(* Properties of the API route *)

SupportedSortKeys ==
  {"timestamp", "level", "package", "executionId", "sessionId", "reference"}

\* the request being served is a log query
IsLogQuery == request # NoRequest /\ request.action = "logs"

\* the sortBy of the request is none of the six supported keys
InvalidSortBy ==
  /\ IsLogQuery
  /\ HasProp(request.params, "sortBy")
  /\ request.params["sortBy"] \notin SupportedSortKeys

\* the page of the request is given and is no decimal numeral
NonNumericPage ==
  /\ IsLogQuery
  /\ Truthy(request.params, "page")
  /\ \E i \in 1..Len(request.params["page"]) : ~IsDigit(request.params["page"][i])

\* the page of the request is given and does not begin with a number: what
\* follows its leading white space is neither a digit nor a sign
PageWithoutLeadingNumber ==
  /\ IsLogQuery
  /\ Truthy(request.params, "page")
  /\ LET t == SkipSpaces(request.params["page"])
     IN  t = <<>> \/ (~IsDigit(t[1]) /\ t[1] \notin {"+", "-"})

\* the request asks for the ascending direction
AscendingRequested ==
  HasProp(request.params, "sortOrder") /\ request.params["sortOrder"] = "asc"

\* logs are in the order of the timestamp, ascending or descending
OrderedByTimestamp(logs, ascending) ==
  \A i, j \in 1..Len(logs) :
    i < j => IF ascending
             THEN localeCompare(logs[i]["timestamp"], logs[j]["timestamp"]) <= 0
             ELSE localeCompare(logs[i]["timestamp"], logs[j]["timestamp"]) >= 0

\* the request was served from a file system that could be read
ServedWithoutFileSystemFailure == pc = "done" /\ (readable \/ ~exists)

C16_GetNeverRejects ==
  pc # "idle" => response.settled = "fulfilled"

\* C18: when enable_log_viewer is false the response to every GET request
\* has status 403 and the request reads neither a log file nor the directory
C18_DisabledViewerAnswers403WithoutReading ==
  (pc # "idle" /\ ~config.enable_log_viewer) =>
    /\ response.settled = "fulfilled"
    /\ response.status = 403
    /\ fsReads = {}
    /\ parsed = <<>> /\ result = NoResult

\* a log query with parameters was refused while the day's file and the
\* directory were there to read
C18_Witness ==
  /\ pc # "idle"
  /\ ~config.enable_log_viewer
  /\ exists /\ dirExists /\ readable
  /\ IsLogQuery
  /\ request.params # NotGiven
  /\ response.status = 403

----------------------------------------------------------------------------
(* Properties of withLogAuth *)

\* the wrapped handler has not run for the request: the reader was not
\* called and nothing was read
InnerHandlerNotCalled == innerCalls = 0 /\ pc = "idle" /\ fsReads = {}

----------------------------------------------------------------------------
(* Properties of the HazoLogger singleton *)

\* C19: all calls of getInstance and getInstanceAsync made without a reset()
\* between them return the same instance, and a call made after a reset()
\* returns an instance distinct from every instance returned before that
\* reset
C19_SingletonWithReset ==
  \A r, s \in returned :
    /\ r.callEpoch = s.callEpoch => r.instance = s.instance
    /\ r.returnEpoch < s.callEpoch => r.instance # s.instance

\* C20: with no reset(), at most one HazoLogger instance is ever
\* constructed, whatever the interleaving of getInstanceAsync, getInstance
\* and the construction of PackageLoggers, and all callers hold the same
\* instance and so the same execution id
C20_AtMostOneInstanceConstructed ==
  /\ constructed <= 1
  /\ \A r, s \in returned : r.instance = s.instance

----------------------------------------------------------------------------
(* Properties of the log context *)

\* what getLogContext() returns in the running code
ActiveContext == getStore(logContextStorage)

\* the value of a property of a context, or that there is none
ValueOf(ctx, k) == IF k \in DOMAIN ctx THEN <<ctx[k]>> ELSE <<>>

\* the frame of the innermost callback
InnermostFrame == frames[Len(frames)]

\* the active context is the one the claim describes for the call f
NestsIn(f, active) ==
  /\ active # NoStore
  /\ IF f.kind \in SessionKinds
     THEN active["depth"] = 1
     ELSE /\ active["depth"] =
               (IF f.enclosing = NoStore THEN 1 ELSE f.enclosing["depth"] + 1)
          /\ \A k \in {"sessionId", "reference"} :
               ValueOf(active, k) =
                 (IF k \in DOMAIN f.passed
                  THEN <<f.passed[k]>>
                  ELSE ValueOf(f.enclosing, k))

\* a callback that was called in the running code returns or reaches its
\* first await, and the context that enclosed the call is active again
EnclosingContextIsBack ==
  (/\ frames # <<>>
   /\ ~InnermostFrame.resumed
   /\ frames' = SubSeq(frames, 1, Len(frames) - 1))
    => ActiveContext' = InnermostFrame.enclosing

----------------------------------------------------------------------------
(* Properties of loadConfig *)

\* the value is no log level
InvalidLogLevel(raw) ==
  ~(raw.type = "string" /\ includes(validLevels, raw.s))

\* the value is no boolean: neither true or false nor one of the words
\* parseBool knows, in any case
InvalidBoolean(raw) ==
  /\ raw.type = "string"
  /\ toLowerCase(raw.s) \notin
       {<<"t", "r", "u", "e">>, <<"f", "a", "l", "s", "e">>, <<"1">>, <<"0">>}

\* the value is no number, read as leniently as parseInt reads
InvalidNumber(raw) == parseInt(StringOf(raw)).nan

\* the key is not in the file, or its value is invalid for it
AbsentOrInvalid(k) ==
  \/ k \notin DOMAIN iniFile.section
  \/ k = "log_level" /\ InvalidLogLevel(iniFile.section[k])
  \/ k \in BooleanKeys /\ InvalidBoolean(iniFile.section[k])
  \/ k \in NumberKeys /\ InvalidNumber(iniFile.section[k])

\* C22: loadConfig returns a complete configuration whatever the file holds:
\* the defaults when the file is missing, the default of every key whose
\* value is absent or invalid (log level, boolean, number), and a log_level
\* that is one of error, warn, info, debug
C22_LoadConfigGivesDefaultsForAbsentAndInvalid ==
  configLoaded =>
    /\ DOMAIN config = ConfigKeys
    /\ ~iniFile.exists => config = DEFAULT_CONFIG
    /\ \A k \in ConfigKeys : AbsentOrInvalid(k) => config[k] = DEFAULT_CONFIG[k]
    /\ includes(validLevels, config["log_level"])

----------------------------------------------------------------------------
(* Properties of the default page size *)

\* readLogs has returned to a direct caller that passed no pageSize
DirectCallWithoutPageSize ==
  /\ pc = "done"
  /\ request = NoRequest
  /\ "pageSize" \notin DOMAIN options

\* the API handler has answered a log request that has no pageSize
RequestWithoutPageSize ==
  /\ pc = "done"
  /\ request # NoRequest
  /\ "pageSize" \notin DOMAIN request.params
  /\ response.status = 200

\* the result has the page size of the configuration, echoed and applied
HasConfiguredPageSize(res) ==
  /\ res.pageSize = config["log_viewer_page_size"]
  /\ res.logs = Paginate(sorted, res.page, config["log_viewer_page_size"])

\* C23: a log query that does not specify pageSize gets the configured
\* log_viewer_page_size, applied and echoed in the result, in a direct
\* readLogs call and in a request served by the API handler
C23_UnspecifiedPageSizeIsTheConfiguredOne ==
  /\ DirectCallWithoutPageSize => HasConfiguredPageSize(result)
  /\ RequestWithoutPageSize => HasConfiguredPageSize(response.body)

----------------------------------------------------------------------------
(* Properties of the order of cap and sort *)

\* the records of the day's file that match the filters of the call, in
\* file order
Matching == applyFilters(parseLogFile(file), options)

\* the first maxResults of them
WithinCap == SubSeq(Matching, 1, Min(Len(Matching), MaxResultsOf(config)))

\* how often a record occurs in a sequence
Occurrences(logs, x) == Cardinality({i \in 1..Len(logs) : logs[i] = x})

\* the same records, each as often, in any order
SameRecords(a, b) ==
  /\ Len(a) = Len(b)
  /\ \A i \in 1..Len(a) : Occurrences(a, a[i]) = Occurrences(b, a[i])

\* in the order of the comparator of the call
InSortOrder(logs) ==
  \A i, j \in 1..Len(logs) : i < j => Comparator(logs[i], logs[j], options) <= 0

\* the record at position i of the matching records lies beyond the cap and
\* is none of the records within it
BeyondCap(i) ==
  /\ i > Len(WithinCap)
  /\ \A j \in 1..Len(WithinCap) : WithinCap[j] # Matching[i]

\* C24: the records reachable through all pages of a query are the first
\* maxResults matching records in file order, re-ordered by the sort; a
\* matching record beyond the cap is on no page, even when it would sort
\* first
C24_CapBeforeSort ==
  (pc = "done" /\ exists) =>
    LET pages == PagesUpTo(result.totalPages)
    IN  /\ SameRecords(pages, WithinCap)
        /\ InSortOrder(pages)
        /\ \A i \in 1..Len(Matching) :
             BeyondCap(i) =>
               /\ \A j \in 1..Len(pages) : pages[j] # Matching[i]
               /\ \A j \in 1..Len(result.logs) : result.logs[j] # Matching[i]

\* C24 witness: with a filter given, more records match than the cap allows,
\* and one beyond the cap would sort before every record within it
C24_Witness ==
  /\ pc = "done"
  /\ ListGiven(options, "package")
  /\ Len(Matching) < Len(parsed)
  /\ Len(WithinCap) = 1
  /\ \E i \in 1..Len(Matching) :
       /\ BeyondCap(i)
       /\ \A j \in 1..Len(WithinCap) :
            Comparator(Matching[i], WithinCap[j], options) < 0
  /\ result.logs = WithinCap

----------------------------------------------------------------------------
(* C25 *)

\* C25: whatever lines an existing, readable day file holds (blank lines,
\* text that is no JSON, any JSON value) and whatever filters, sort key and
\* page are asked for, readLogs and the four metadata queries return a
\* result: none of them rejects with an error thrown on the records
C25_MalformedContentNeverRaises == pc # "threw"

----------------------------------------------------------------------------
(* C26 *)

\* the JSON text of the i-th entry of the writer is in the file in full
WrittenCompletely(i) ==
  i \in 1..Len(file) /\ file[i] = orderedJsonFormat(writerSequence[i])

\* the entries of the writer that are in the file in full
CompleteRecords == {writerSequence[i] : i \in {j \in 1..Len(writerSequence) : WrittenCompletely(j)}}

\* seq is the beginning of the sequence of the writer
PrefixOfWriterSequence(seq) ==
  /\ Len(seq) <= Len(writerSequence)
  /\ \A i \in 1..Len(seq) : seq[i] = writerSequence[i]

\* C26: one writer appends lines to the day's file while a reader streams
\* it. The query of the reader does not fail; the records it parsed are the
\* beginning of the writer's sequence, in file order; every record it parsed
\* or returns is an entry the writer has written in full, so a line that is
\* written in part when the stream ends is dropped
C26_ReaderSeesOnlyCompleteRecords ==
  /\ pc # "threw"
  /\ (pc = "done" /\ exists) =>
       /\ PrefixOfWriterSequence(parsed)
       /\ \A i \in 1..Len(parsed) : WrittenCompletely(i)
       /\ \A i \in 1..Len(result.logs) : result.logs[i] \in CompleteRecords

\* a query has ended while the second line was written in part: the stream
\* delivered the first line before the second was begun, and one record is
\* returned
C26_Witness ==
  /\ pc = "done"
  /\ Len(file) = 2
  /\ inFlight # <<>>
  /\ file[2] # <<>>
  /\ file[2] # inFlight
  /\ Len(result.logs) = 1

----------------------------------------------------------------------------
(* C27, C28 *)

\* how often call c was passed to the core logger
TimesDelivered(c) == Cardinality({i \in 1..Len(delivered) : delivered[i].call = c})

\* how often call c was reported on console.error
TimesReported(c) == Cardinality({i \in 1..Len(reported) : reported[i] = c})

\* call c waits for the core logger
IsQueued(c) == \E i \in 1..Len(queued) : queued[i].call = c

\* the calls made are each in one place, once: waiting, passed to the core
\* logger, or reported
NoCallLostOrDoubled ==
  \A c \in 1..logCalls :
    TimesDelivered(c) + TimesReported(c) + (IF IsQueued(c) THEN 1 ELSE 0) = 1

\* an entry passed to a core logger carries the execution id of that logger
StampedByItsLogger ==
  \A i \in 1..Len(delivered) :
    delivered[i].executionId = delivered[i].by /\ delivered[i].by \in ExecutionIds

\* an entry is reported only when the initialisation has failed, and then
\* none is passed to a core logger
ReportedOnlyOnFailure ==
  reported # <<>> => initPromise.state = "rejected" /\ delivered = <<>>

\* call c has been dealt with: passed to the core logger once, or, the
\* initialisation having failed, reported once
Settled(c) ==
  \/ TimesDelivered(c) = 1 /\ TimesReported(c) = 0
  \/ TimesDelivered(c) = 0 /\ TimesReported(c) = 1 /\ initPromise.state = "rejected"

C28_DeliveredInCallOrder ==
  \A i, j \in 1..Len(delivered) :
    i < j => delivered[i].call < delivered[j].call

----------------------------------------------------------------------------
(* C29 *)

\* the entry of call c waits in logBatch
InBatch(c) == \E i \in 1..Len(logBatch) : logBatch[i] = c

\* in how many POSTs the entry of call c is
TimesPosted(c) ==
  Cardinality({i \in 1..Len(posts) : \E j \in 1..Len(posts[i].body) : posts[i].body[j] = c})

\* call c has passed the minLevel check
PassedMinLevel(c) == shouldLog(clientCalls[c].level, clientLogger.minLevel)

\* no entry is in two POSTs, and none has left logBatch without being in one
PostedOnceOrWaiting ==
  \A c \in 1..Len(clientCalls) :
    PassedMinLevel(c) => TimesPosted(c) <= 1 /\ (TimesPosted(c) = 0 => InBatch(c))

\* while entries wait, a timeout is set or the callback of the timer is at
\* work, as long as the page is there
TimerOrFlushPending ==
  (logBatch # <<>> /\ ~unloaded) => (pendingTimers = 1 \/ timerCallback # "idle")

\* C29: with batchMode on, however log calls, firings of the timer, calls of
\* flush() and POSTs in flight interleave, every entry that passes minLevel
\* is in the body of exactly one POST, never dropped unsent and never sent
\* twice; at most one batch timer is pending; and while logBatch is not empty
\* a timer or a flush is pending, so that the entry is sent in the end
C29_BatchedEntriesArePostedOnce ==
  /\ [](PostedOnceOrWaiting /\ pendingTimers <= 1 /\ TimerOrFlushPending)
  /\ \A c \in 1..MaxClientCalls : InBatch(c) ~> (TimesPosted(c) = 1)

----------------------------------------------------------------------------
(* C30 *)

\* readLogs has returned to a direct caller that passed a page below 1
DirectCallForNoPage ==
  /\ pc = "done"
  /\ request = NoRequest
  /\ HasProp(options, "page")
  /\ options["page"] < 1

\* the API handler has answered a log request whose page is no number or is
\* below 1
RequestForNoPage ==
  /\ pc = "done"
  /\ request # NoRequest
  /\ Truthy(request.params, "page")
  /\ parseInt(request.params["page"]).nan \/ parseInt(request.params["page"]).n < 1
  /\ response.status = 200

\* the first pageSize records of the sorted, capped sequence
FirstPage(pageSize) == SubSeq(sorted, 1, Min(Len(sorted), pageSize))

\* C30: a page that is no positive integer (0, a negative integer, NaN from a
\* parameter that is no number) is served like page 1: the result holds the
\* first pageSize records of the sorted, capped sequence and no others
C30_NoPageIsServedAsPageOne ==
  /\ DirectCallForNoPage => result.logs = FirstPage(result.pageSize)
  /\ RequestForNoPage => response.body.logs = FirstPage(response.body.pageSize)

====
